------------------------ MODULE LinuxTpm2RootProofs ------------------------
(***************************************************************************)
(* Theorems about the Linux key root, for any number of programs, keys,    *)
(* handles and transient slots of the TPM, whatever fails and whether or   *)
(* not key ids share a handle.                                             *)
(***************************************************************************)
EXTENDS LinuxTpm2Root, FiniteSetTheorems, TLAPS

Ops == {"none", "seal", "unseal", "destroy", "present"}

Pcs == {"idle", "check", "srk", "primary", "persist", "flush_srk",
        "srk_again", "create", "load", "evict", "flush", "use"}

Outs == {"none", "ok", "exists", "not_found", "crypto_fail", "fail"}

Programs ==
  [op : Ops, key : 0..minted, pc : Pcs, made : BOOLEAN, hit : BOOLEAN, rwk : 0..minted, out : Outs]

(* TypeOK, and that the slots of the TPM are never exceeded.               *)
TypeInv ==
  /\ nv \in [0..Handles -> 0..SrkObject] /\ nv[SRK] \in {Empty, SrkObject}
  /\ \A s \in 0..(Handles - 1) : nv[s] # Empty => nv[s] \in 1..minted /\ Handle(nv[s]) = s
  /\ loaded \subseteq Procs /\ IsFiniteSet(loaded)
  /\ leaked \in Nat /\ Cardinality(loaded) + leaked <= MaxLoaded
  /\ minted \in 0..MaxKeys /\ sealed \subseteq 1..minted /\ evicted \subseteq 1..minted
  /\ pr \in [Procs -> Programs]

(* An enrolment is running: its key is its own and no other call has it.   *)
Enrols(p) == pr[p].op = "seal" /\ pr[p].pc # "idle"

KeyInv ==
  /\ \A p \in Procs : pr[p].op # "none" => pr[p].key \in 1..minted
  /\ \A p \in Procs : pr[p].op \in {"unseal", "destroy", "present"} => pr[p].key \in sealed
  /\ \A p \in Procs : Enrols(p) => pr[p].key \notin sealed
  /\ \A p, q \in Procs : p # q /\ Enrols(p) /\ Enrols(q) => pr[p].key # pr[q].key

(* Only between a load and its flush does a program have something loaded. *)
Loading == {"persist", "flush_srk", "evict", "flush"}

LoadedInv == \A p \in loaded : pr[p].pc \in Loading

-----------------------------------------------------------------------------
(* Handles and slots.                                                      *)

LEMMA HandleType == \A k \in Nat : Handle(k) \in 0..(Handles - 1)
  BY HandlesAssumption DEF Handle

LEMMA LeaksKeepCount ==
  ASSUME IsFiniteSet(loaded), leaked \in Nat, NEW p, Leaks(p)
  PROVE  /\ loaded' = loaded \ {p} /\ IsFiniteSet(loaded')
         /\ leaked' \in Nat /\ leaked <= leaked'
         /\ Cardinality(loaded') + leaked' = Cardinality(loaded) + leaked
<1>1. loaded' = loaded \ {p} /\ leaked' = leaked + Cardinality(loaded \intersect {p})
  BY DEF Leaks
<1>2. Cardinality(loaded) \in Nat
  BY FS_CardinalityType
<1>3. /\ IsFiniteSet(loaded')
      /\ Cardinality(loaded') = IF p \in loaded THEN Cardinality(loaded) - 1 ELSE Cardinality(loaded)
  BY <1>1, FS_RemoveElement
<1>4. CASE p \in loaded
  <2>1. loaded \intersect {p} = {p}
    BY <1>4
  <2>2. Cardinality(loaded \intersect {p}) = 1
    BY <2>1, FS_Singleton
  <2>. QED
    BY <1>1, <1>2, <1>3, <1>4, <2>2
<1>5. CASE p \notin loaded
  <2>1. loaded \intersect {p} = {}
    BY <1>5
  <2>2. Cardinality(loaded \intersect {p}) = 0
    BY <2>1, FS_EmptySet
  <2>. QED
    BY <1>1, <1>2, <1>3, <1>5, <2>2
<1>. QED
  BY <1>4, <1>5

(* A flush unloads what p had, and frees its slot or leaks it.             *)
LEMMA FlushedKeepsCount ==
  ASSUME IsFiniteSet(loaded), leaked \in Nat, NEW p, Flushed(p)
  PROVE  /\ loaded' = loaded \ {p} /\ IsFiniteSet(loaded')
         /\ leaked' \in Nat /\ leaked <= leaked'
         /\ Cardinality(loaded') + leaked' <= Cardinality(loaded) + leaked
<1>1. CASE Leaks(p)
  <2>1. Cardinality(loaded') \in Nat /\ Cardinality(loaded) \in Nat
    BY <1>1, LeaksKeepCount, FS_CardinalityType
  <2>. QED
    BY <1>1, <2>1, LeaksKeepCount
<1>2. CASE loaded' = loaded \ {p} /\ leaked' = leaked
  <2>1. Cardinality(loaded) \in Nat
    BY FS_CardinalityType
  <2>. QED
    BY <1>2, <2>1, FS_RemoveElement
<1>. QED
  BY <1>1, <1>2 DEF Flushed

-----------------------------------------------------------------------------
(* What a step makes of the programs.                                      *)

(* p has gone on in its call, to pc, and the others have not moved.        *)
Moved(p, pc, made, hit, out, rwk) ==
  /\ pr' \in [Procs -> Programs] /\ minted' = minted
  /\ \A q \in Procs : q # p => pr'[q] = pr[q]
  /\ pr'[p].op = pr[p].op /\ pr'[p].key = pr[p].key
  /\ pr'[p].pc = pc /\ pr'[p].made = made /\ pr'[p].hit = hit
  /\ pr'[p].out = out /\ pr'[p].rwk = rwk

LEMMA GoesMoves ==
  ASSUME pr \in [Procs -> Programs], minted' = minted, NEW p \in Procs, NEW pc \in Pcs,
         NEW made \in BOOLEAN, NEW hit \in BOOLEAN, Goes(p, pc, made, hit)
  PROVE  Moved(p, pc, made, pr[p].hit \/ hit, pr[p].out, pr[p].rwk)
  BY DEF Goes, Moved, Programs

LEMMA EndsMoves ==
  ASSUME pr \in [Procs -> Programs], minted' = minted, NEW p \in Procs, NEW out \in Outs,
         NEW rwk \in 0..minted, NEW hit \in BOOLEAN, Ends(p, out, rwk, hit)
  PROVE  Moved(p, "idle", pr[p].made, pr[p].hit \/ hit, out, rwk)
<1>. DEFINE mine == [pr[p] EXCEPT !.pc = "idle", !.out = out, !.rwk = rwk, !.hit = @ \/ hit]
<1>1. pr[p] \in Programs /\ "idle" \in Pcs
  BY DEF Pcs
<1>2. mine \in Programs
  BY <1>1 DEF Programs
<1>3. mine.op = pr[p].op /\ mine.key = pr[p].key /\ mine.pc = "idle" /\ mine.made = pr[p].made
  BY <1>1 DEF Programs
<1>4. mine.out = out /\ mine.rwk = rwk
  BY <1>1 DEF Programs
<1>5. mine.hit = (pr[p].hit \/ hit)
  BY <1>1 DEF Programs
<1>6. pr' = [pr EXCEPT ![p] = mine]
  BY DEF Ends
<1>. HIDE DEF mine
<1>. QED
  BY <1>2, <1>3, <1>4, <1>5, <1>6 DEF Moved

LEMMA GoToMoves ==
  ASSUME pr \in [Procs -> Programs], minted' = minted,
         NEW p \in Procs, NEW pc \in Pcs, NEW made \in BOOLEAN, GoTo(p, pc, made)
  PROVE  Moved(p, pc, made, pr[p].hit, pr[p].out, pr[p].rwk)
  BY DEF GoTo, Goes, Moved, Programs

LEMMA ReturnMoves ==
  ASSUME pr \in [Procs -> Programs], minted' = minted,
         NEW p \in Procs, NEW out \in Outs, NEW rwk \in 0..minted, Return(p, out, rwk)
  PROVE  Moved(p, "idle", pr[p].made, pr[p].hit, out, rwk)
<1>1. Ends(p, out, rwk, FALSE) /\ (pr[p].hit \/ FALSE) = pr[p].hit
  BY DEF Return, Programs
<1>. QED
  BY <1>1, EndsMoves

LEMMA ToolFailsMoves ==
  ASSUME pr \in [Procs -> Programs], minted' = minted,
         NEW p \in Procs, NEW pc \in Pcs, NEW refused \in BOOLEAN, ToolFails(p, pc, refused)
  PROVE  Moved(p, pc, FALSE, pr[p].hit \/ ~refused, pr[p].out, pr[p].rwk)
  BY DEF ToolFails, Goes, Moved, Programs

(* p, which was idle, has begun a call.                                    *)
LEMMA CallBegins ==
  ASSUME pr \in [Procs -> Programs], minted \in Nat, minted' \in Nat, minted <= minted',
         NEW p \in Procs, NEW op \in Ops, NEW k \in 0..minted', Call(p, op, k)
  PROVE  /\ pr' \in [Procs -> Programs'] /\ pr[p].pc = "idle"
         /\ \A q \in Procs : q # p => pr'[q] = pr[q]
         /\ pr'[p].op = op /\ pr'[p].key = k /\ pr'[p].pc = "check"
         /\ pr'[p].made = FALSE /\ pr'[p].hit = FALSE /\ pr'[p].out = "none" /\ pr'[p].rwk = 0
         /\ UNCHANGED <<nv, loaded, leaked, sealed, evicted>>
  BY DEF Call, Programs, Ops, Pcs, Outs, transient

-----------------------------------------------------------------------------
(* What each tool call does, as the invariants need it.                    *)

Stays(p, pc, made) == Moved(p, pc, made, pr[p].hit, pr[p].out, pr[p].rwk)
Returns(p, out, rwk) == Moved(p, "idle", pr[p].made, pr[p].hit, out, rwk)
Fails(p, pc, refused) == Moved(p, pc, FALSE, pr[p].hit \/ ~refused, pr[p].out, pr[p].rwk)

(* The same, where the look at a handle may have been hit.                 *)
On(p, pc, hit) == Moved(p, pc, FALSE, pr[p].hit \/ hit, pr[p].out, pr[p].rwk)
Over(p, out, hit) == Moved(p, "idle", pr[p].made, pr[p].hit \/ hit, out, 0)

Quiet == UNCHANGED <<nv, loaded, leaked, sealed, evicted>>

LEMMA Seen == \A s : \A look \in Sees(s) :
                /\ look.there \in BOOLEAN /\ look.hit \in BOOLEAN
                /\ look.there => nv[s] # Empty /\ look.hit = FALSE
                /\ ~look.there => look.hit \/ nv[s] = Empty
  BY DEF Sees

LEMMA ChecksEffect ==
  ASSUME TypeInv, NEW p \in Procs
  PROVE  /\ SealCheck(p) =>
              /\ At(p, "seal", "check") /\ Quiet
              /\ \/ nv[Slot(p)] # Empty /\ Returns(p, "exists", 0)
                 \/ \E hit \in BOOLEAN : On(p, "srk", hit)
         /\ SrkCheck(p) =>
              /\ At(p, "seal", "srk") /\ Quiet
              /\ \/ \E hit \in BOOLEAN : nv[SRK] # Empty /\ On(p, "create", hit)
                 \/ \E hit \in BOOLEAN : On(p, "primary", hit)
         /\ SrkAgain(p) =>
              /\ At(p, "seal", "srk_again") /\ Quiet
              /\ \E hit \in BOOLEAN :
                   \/ (nv[SRK] # Empty \/ pr[p].made) /\ On(p, "create", hit)
                   \/ ~pr[p].made /\ (hit \/ nv[SRK] = Empty) /\ Over(p, "fail", hit)
         /\ Check(p) =>
              /\ Quiet /\ pr[p].op \in {"unseal", "destroy", "present"} /\ pr[p].pc = "check"
              /\ \/ Stays(p, "use", FALSE)
                 \/ \E hit \in BOOLEAN : pr[p].op = "present" /\ Over(p, "ok", hit)
                 \/ \E hit \in BOOLEAN :
                      /\ hit \/ nv[Slot(p)] = Empty
                      /\ Over(p, IF pr[p].op = "destroy" THEN "ok" ELSE "not_found", hit)
<1>. pr \in [Procs -> Programs] /\ 0 \in 0..minted
  BY HandlesAssumption DEF TypeInv
<1>1. \A pc \in Pcs, made \in BOOLEAN : minted' = minted /\ GoTo(p, pc, made) => Stays(p, pc, made)
  BY GoToMoves DEF Stays
<1>2. \A out \in Outs : minted' = minted /\ Return(p, out, 0) => Returns(p, out, 0)
  BY ReturnMoves DEF Returns
<1>3. \A pc \in Pcs, hit \in BOOLEAN : minted' = minted /\ Goes(p, pc, FALSE, hit) => On(p, pc, hit)
  BY GoesMoves DEF On
<1>4. \A out \in Outs, hit \in BOOLEAN : minted' = minted /\ Ends(p, out, 0, hit) => Over(p, out, hit)
  BY EndsMoves DEF Over
<1>5. ASSUME SealCheck(p)
      PROVE  /\ At(p, "seal", "check") /\ Quiet
             /\ \/ nv[Slot(p)] # Empty /\ Returns(p, "exists", 0)
                \/ \E hit \in BOOLEAN : On(p, "srk", hit)
  <2>1. PICK look \in Sees(Slot(p)) :
          IF look.there THEN Return(p, "exists", 0) ELSE Goes(p, "srk", FALSE, look.hit)
    BY <1>5 DEF SealCheck
  <2>2. At(p, "seal", "check") /\ Quiet /\ minted' = minted
    BY <1>5 DEF SealCheck, Quiet, transient
  <2>3. CASE look.there
    <3>1. nv[Slot(p)] # Empty
      BY <2>3, Seen
    <3>. QED
      BY <1>2, <2>1, <2>2, <2>3, <3>1 DEF Outs
  <2>4. CASE ~look.there
    <3>1. look.hit \in BOOLEAN
      BY Seen
    <3>2. On(p, "srk", look.hit)
      BY <1>3, <2>1, <2>2, <2>4, <3>1 DEF Pcs
    <3>. QED
      BY <2>2, <3>1, <3>2
  <2>. QED
    BY <2>3, <2>4
<1>6. ASSUME SrkCheck(p)
      PROVE  /\ At(p, "seal", "srk") /\ Quiet
             /\ \/ \E hit \in BOOLEAN : nv[SRK] # Empty /\ On(p, "create", hit)
                \/ \E hit \in BOOLEAN : On(p, "primary", hit)
  <2>1. PICK look \in Sees(SRK) :
          Goes(p, IF look.there THEN "create" ELSE "primary", FALSE, look.hit)
    BY <1>6 DEF SrkCheck
  <2>2. At(p, "seal", "srk") /\ Quiet /\ minted' = minted
    BY <1>6 DEF SrkCheck, Quiet, transient
  <2>3. look.hit \in BOOLEAN /\ (look.there => nv[SRK] # Empty)
    BY Seen
  <2>4. CASE look.there
    <3>1. On(p, "create", look.hit)
      BY <1>3, <2>1, <2>2, <2>3, <2>4 DEF Pcs
    <3>. QED
      BY <2>2, <2>3, <2>4, <3>1
  <2>5. CASE ~look.there
    <3>1. On(p, "primary", look.hit)
      BY <1>3, <2>1, <2>2, <2>3, <2>5 DEF Pcs
    <3>. QED
      BY <2>2, <2>3, <3>1
  <2>. QED
    BY <2>4, <2>5
<1>7. ASSUME SrkAgain(p)
      PROVE  /\ At(p, "seal", "srk_again") /\ Quiet
             /\ \E hit \in BOOLEAN :
                  \/ (nv[SRK] # Empty \/ pr[p].made) /\ On(p, "create", hit)
                  \/ ~pr[p].made /\ (hit \/ nv[SRK] = Empty) /\ Over(p, "fail", hit)
  <2>1. PICK look \in Sees(SRK) :
          IF look.there \/ pr[p].made THEN Goes(p, "create", FALSE, look.hit)
                                      ELSE Ends(p, "fail", 0, look.hit)
    BY <1>7 DEF SrkAgain
  <2>2. At(p, "seal", "srk_again") /\ Quiet /\ minted' = minted
    BY <1>7 DEF SrkAgain, Quiet, transient
  <2>3. /\ look.hit \in BOOLEAN /\ (look.there => nv[SRK] # Empty)
        /\ ~look.there => look.hit \/ nv[SRK] = Empty
    BY Seen
  <2>4. CASE look.there \/ pr[p].made
    <3>1. On(p, "create", look.hit)
      BY <1>3, <2>1, <2>2, <2>3, <2>4 DEF Pcs
    <3>. QED
      BY <2>2, <2>3, <2>4, <3>1
  <2>5. CASE ~(look.there \/ pr[p].made)
    <3>1. Over(p, "fail", look.hit)
      BY <1>4, <2>1, <2>2, <2>3, <2>5 DEF Outs
    <3>. QED
      BY <2>2, <2>3, <2>5, <3>1
  <2>. QED
    BY <2>4, <2>5
<1>8. ASSUME Check(p)
      PROVE  /\ Quiet /\ pr[p].op \in {"unseal", "destroy", "present"} /\ pr[p].pc = "check"
             /\ \/ Stays(p, "use", FALSE)
                \/ \E hit \in BOOLEAN : pr[p].op = "present" /\ Over(p, "ok", hit)
                \/ \E hit \in BOOLEAN :
                     /\ hit \/ nv[Slot(p)] = Empty
                     /\ Over(p, IF pr[p].op = "destroy" THEN "ok" ELSE "not_found", hit)
  <2>1. PICK look \in Sees(Slot(p)) :
          \/ /\ At(p, "unseal", "check")
             /\ IF look.there THEN GoTo(p, "use", FALSE) ELSE Ends(p, "not_found", 0, look.hit)
          \/ /\ At(p, "destroy", "check")
             /\ IF look.there THEN GoTo(p, "use", FALSE) ELSE Ends(p, "ok", 0, look.hit)
          \/ /\ At(p, "present", "check")
             /\ Ends(p, IF look.there THEN "ok" ELSE "not_found", 0, look.hit)
    BY <1>8 DEF Check
  <2>2. Quiet /\ minted' = minted
    BY <1>8 DEF Check, Quiet, transient
  <2>3. look.hit \in BOOLEAN /\ (~look.there => look.hit \/ nv[Slot(p)] = Empty)
    BY Seen
  <2>4. pr[p].op \in {"unseal", "destroy", "present"} /\ pr[p].pc = "check"
    BY <2>1 DEF At
  <2>5. CASE look.there /\ pr[p].op = "present"
    <3>1. Over(p, "ok", look.hit)
      BY <1>4, <2>1, <2>2, <2>3, <2>5 DEF At, Outs
    <3>. QED
      BY <2>2, <2>3, <2>4, <2>5, <3>1
  <2>6. CASE look.there /\ pr[p].op # "present"
    BY <1>1, <2>1, <2>2, <2>4, <2>6 DEF At, Pcs
  <2>7. CASE ~look.there
    <3>1. Over(p, IF pr[p].op = "destroy" THEN "ok" ELSE "not_found", look.hit)
      BY <1>4, <2>1, <2>2, <2>3, <2>7 DEF At, Outs
    <3>. QED
      BY <2>2, <2>3, <2>4, <2>7, <3>1
  <2>. QED
    BY <2>5, <2>6, <2>7
<1>. QED
  BY <1>5, <1>6, <1>7, <1>8

LEMMA ToolsEffect ==
  ASSUME TypeInv, NEW p \in Procs
  PROVE  /\ CreatePrimary(p) =>
              /\ At(p, "seal", "primary") /\ UNCHANGED <<nv, leaked, sealed, evicted>>
              /\ \/ HasRoom /\ loaded' = loaded \union {p} /\ Stays(p, "persist", FALSE)
                 \/ loaded' = loaded /\ Fails(p, "flush_srk", ~HasRoom)
         /\ PersistSrk(p) =>
              /\ At(p, "seal", "persist") /\ UNCHANGED <<loaded, leaked, sealed, evicted>>
              /\ \/ /\ nv[SRK] = Empty /\ nv' = [nv EXCEPT ![SRK] = SrkObject]
                    /\ Stays(p, "flush_srk", TRUE)
                 \/ nv' = nv /\ Fails(p, "flush_srk", nv[SRK] # Empty)
         /\ CreateSealed(p) =>
              /\ At(p, "seal", "create") /\ Quiet
              /\ \/ nv[SRK] # Empty /\ Stays(p, "load", FALSE)
                 \/ Fails(p, "flush", nv[SRK] = Empty)
         /\ LoadSealed(p) =>
              /\ At(p, "seal", "load") /\ UNCHANGED <<nv, leaked, sealed, evicted>>
              /\ \/ HasRoom /\ loaded' = loaded \union {p} /\ Stays(p, "evict", FALSE)
                 \/ loaded' = loaded /\ Fails(p, "flush", ~HasRoom)
         /\ PersistSealed(p) =>
              /\ At(p, "seal", "evict") /\ UNCHANGED <<loaded, leaked, sealed, evicted>>
              /\ \/ /\ nv[Slot(p)] = Empty /\ nv' = [nv EXCEPT ![Slot(p)] = pr[p].key]
                    /\ Stays(p, "flush", TRUE)
                 \/ nv' = nv /\ Fails(p, "flush", nv[Slot(p)] # Empty)
<1>. pr \in [Procs -> Programs]
  BY DEF TypeInv
<1>1. \A pc \in Pcs, made \in BOOLEAN : minted' = minted /\ GoTo(p, pc, made) => Stays(p, pc, made)
  BY GoToMoves DEF Stays
<1>2. \A pc \in Pcs, refused \in BOOLEAN :
        minted' = minted /\ ToolFails(p, pc, refused) => Fails(p, pc, refused)
  BY ToolFailsMoves DEF Fails
<1>3. HasRoom \in BOOLEAN
  BY DEF HasRoom
<1>4. "persist" \in Pcs /\ "flush_srk" \in Pcs /\ "load" \in Pcs /\ "flush" \in Pcs /\ "evict" \in Pcs
  BY DEF Pcs
<1>. QED
  BY <1>1, <1>2, <1>3, <1>4
     DEF CreatePrimary, PersistSrk, CreateSealed, LoadSealed, PersistSealed, transient, Quiet

LEMMA EndsEffect ==
  ASSUME TypeInv, NEW p \in Procs
  PROVE  /\ FlushSrk(p) =>
              /\ At(p, "seal", "flush_srk") /\ UNCHANGED <<nv, sealed, evicted>> /\ Flushed(p)
              /\ Stays(p, "srk_again", pr[p].made)
         /\ WorkDirFails(p) =>
              /\ At(p, "seal", "primary") \/ At(p, "seal", "create")
              /\ Quiet /\ Over(p, "fail", TRUE)
         /\ FlushSealed(p) =>
              /\ At(p, "seal", "flush") /\ UNCHANGED <<nv, evicted>> /\ Flushed(p)
              /\ \/ ~pr[p].made /\ sealed' = sealed /\ Returns(p, "fail", 0)
                 \/ pr[p].made /\ sealed' = sealed \union {pr[p].key} /\ Returns(p, "ok", 0)
         /\ Unseal(p) =>
              /\ At(p, "unseal", "use") /\ Quiet
              /\ \/ nv[Slot(p)] # Empty /\ Return(p, "ok", nv[Slot(p)]) /\ minted' = minted
                 \/ Returns(p, "crypto_fail", 0)
         /\ Destroy(p) =>
              /\ At(p, "destroy", "use") /\ UNCHANGED <<loaded, leaked, sealed>>
              /\ \/ /\ nv' = [nv EXCEPT ![Slot(p)] = Empty] /\ Returns(p, "ok", 0)
                    /\ nv[Slot(p)] # Empty /\ evicted' = evicted \union {nv[Slot(p)]}
                 \/ nv' = nv /\ evicted' = evicted /\ Returns(p, "fail", 0)
         /\ Crash(p) =>
              /\ pr[p].pc # "idle" /\ UNCHANGED <<nv, sealed, evicted>> /\ Leaks(p)
              /\ Returns(p, "none", 0)
<1>. pr \in [Procs -> Programs] /\ 0 \in 0..minted
  BY HandlesAssumption DEF TypeInv
<1>1. \A out \in Outs : minted' = minted /\ Return(p, out, 0) => Returns(p, out, 0)
  BY ReturnMoves DEF Returns
<1>2. "fail" \in Outs /\ "ok" \in Outs /\ "none" \in Outs /\ "crypto_fail" \in Outs /\ "srk_again" \in Pcs
  BY DEF Outs, Pcs
<1>3. pr[p].made \in BOOLEAN
  BY DEF Programs
<1>4. FlushSrk(p) => /\ At(p, "seal", "flush_srk") /\ UNCHANGED <<nv, sealed, evicted>> /\ Flushed(p)
                     /\ Stays(p, "srk_again", pr[p].made)
  BY <1>2, <1>3, GoToMoves DEF FlushSrk, Stays
<1>5. WorkDirFails(p) =>
        /\ At(p, "seal", "primary") \/ At(p, "seal", "create")
        /\ Quiet /\ Over(p, "fail", TRUE)
  BY <1>2, EndsMoves DEF WorkDirFails, Quiet, transient, Over
<1>. QED
  BY <1>1, <1>2, <1>3, <1>4, <1>5 DEF FlushSealed, Unseal, Destroy, Crash, Quiet, transient
-----------------------------------------------------------------------------
(* Types.                                                                  *)

HandlesInv ==
  /\ nv \in [0..Handles -> 0..SrkObject] /\ nv[SRK] \in {Empty, SrkObject}
  /\ \A s \in 0..(Handles - 1) : nv[s] # Empty => nv[s] \in 1..minted /\ Handle(nv[s]) = s

SlotsInv ==
  /\ loaded \subseteq Procs /\ IsFiniteSet(loaded)
  /\ leaked \in Nat /\ Cardinality(loaded) + leaked <= MaxLoaded

LEMMA TypeInvByPart ==
  TypeInv <=> /\ HandlesInv /\ SlotsInv
              /\ minted \in 0..MaxKeys /\ sealed \subseteq 1..minted
              /\ evicted \subseteq 1..minted /\ pr \in [Procs -> Programs]
  BY DEF TypeInv, HandlesInv, SlotsInv

LEMMA TypeInvNext ==
  ASSUME HandlesInv', SlotsInv', minted' \in 0..MaxKeys, sealed' \subseteq 1..minted',
         evicted' \subseteq 1..minted', pr' \in [Procs -> Programs']
  PROVE  TypeInv'
  BY DEF TypeInv, HandlesInv, SlotsInv

LEMMA TypeInvTypeOK == TypeInv => TypeOK
<1>1. SUFFICES ASSUME TypeInv PROVE TypeOK
  OBVIOUS
<1>2. Cardinality(loaded) \in Nat
  BY <1>1, FS_CardinalityType DEF TypeInv
<1>3. leaked \in 0..MaxLoaded
  BY <1>1, <1>2, HandlesAssumption DEF TypeInv
<1>4. pr \in [Procs -> [op : {"none", "seal", "unseal", "destroy", "present"}, key : 0..minted,
                       pc : {"idle", "check", "srk", "primary", "persist", "flush_srk",
                             "srk_again", "create", "load", "evict", "flush", "use"},
                       made : BOOLEAN, hit : BOOLEAN, rwk : 0..minted,
                       out : {"none", "ok", "exists", "not_found", "crypto_fail", "fail"}]]
  BY <1>1 DEF TypeInv, Programs, Ops, Pcs, Outs
<1>. QED
  BY <1>1, <1>3, <1>4 DEF TypeInv, TypeOK

LEMMA TypeInit == Init => TypeInv
<1>1. SUFFICES ASSUME Init PROVE TypeInv
  OBVIOUS
<1>2. HandlesInv
  BY <1>1, HandlesAssumption DEF Init, HandlesInv, SRK, SrkObject, Empty
<1>3. SlotsInv
  BY <1>1, FS_EmptySet, HandlesAssumption DEF Init, SlotsInv
<1>4. minted \in 0..MaxKeys /\ sealed \subseteq 1..minted /\ evicted \subseteq 1..minted
  BY <1>1, HandlesAssumption DEF Init
<1>5. pr \in [Procs -> Programs]
  BY <1>1 DEF Init, Programs, Ops, Pcs, Outs
<1>. QED
  BY <1>2, <1>3, <1>4, <1>5, TypeInvByPart

(* One more transient object, which the TPM has room for.                  *)
LEMMA LoadKeepsSlots ==
  ASSUME SlotsInv, NEW p \in Procs, HasRoom, loaded' = loaded \union {p}, leaked' = leaked
  PROVE  SlotsInv'
<1>1. Cardinality(loaded) \in Nat
  BY FS_CardinalityType DEF SlotsInv
<1>2. /\ IsFiniteSet(loaded')
      /\ Cardinality(loaded') \in {Cardinality(loaded), Cardinality(loaded) + 1}
  BY FS_AddElement DEF SlotsInv
<1>. QED
  BY <1>1, <1>2, HandlesAssumption DEF SlotsInv, HasRoom

LEMMA UnloadKeepsSlots ==
  ASSUME SlotsInv, NEW p, Flushed(p) \/ Leaks(p)
  PROVE  SlotsInv'
<1>1. Cardinality(loaded) \in Nat
  BY FS_CardinalityType DEF SlotsInv
<1>2. /\ loaded' = loaded \ {p} /\ IsFiniteSet(loaded') /\ leaked' \in Nat
      /\ Cardinality(loaded') + leaked' <= Cardinality(loaded) + leaked
  <2>1. CASE Flushed(p)
    BY <2>1, FlushedKeepsCount DEF SlotsInv
  <2>2. CASE Leaks(p)
    <3>1. /\ loaded' = loaded \ {p} /\ IsFiniteSet(loaded') /\ leaked' \in Nat
          /\ Cardinality(loaded') + leaked' = Cardinality(loaded) + leaked
      BY <2>2, LeaksKeepCount DEF SlotsInv
    <3>2. Cardinality(loaded') \in Nat
      BY <3>1, FS_CardinalityType
    <3>. QED
      BY <1>1, <3>1, <3>2 DEF SlotsInv
  <2>. QED
    BY <2>1, <2>2
<1>3. Cardinality(loaded') \in Nat
  BY <1>2, FS_CardinalityType
<1>. QED
  BY <1>1, <1>2, <1>3, HandlesAssumption DEF SlotsInv

LEMMA SlotType ==
  ASSUME TypeInv, NEW p \in Procs
  PROVE  Slot(p) \in 0..(Handles - 1) /\ pr[p].key \in 0..minted /\ Slot(p) # SRK
<1>1. pr[p].key \in 0..minted /\ minted \in Nat
  BY HandlesAssumption DEF TypeInv, Programs
<1>2. Slot(p) \in 0..(Handles - 1)
  BY <1>1, HandleType DEF Slot
<1>. QED
  BY <1>1, <1>2, HandlesAssumption DEF SRK

(* An enrolment of p evicts its key, or the storage root key, to its place,*)
(* and a destroy empties a handle.                                         *)
LEMMA HandlesKept ==
  ASSUME TypeInv, NEW p \in Procs, minted' = minted,
         \/ nv' = nv
         \/ nv' = [nv EXCEPT ![SRK] = SrkObject]
         \/ pr[p].key \in 1..minted /\ nv' = [nv EXCEPT ![Slot(p)] = pr[p].key]
         \/ nv' = [nv EXCEPT ![Slot(p)] = Empty]
  PROVE  HandlesInv'
<1>1. HandlesInv /\ minted \in 0..MaxKeys /\ Slot(p) \in 0..(Handles - 1) /\ Slot(p) # SRK
  BY SlotType DEF TypeInv, HandlesInv
<1>2. CASE nv' = nv
  BY <1>1, <1>2 DEF HandlesInv
<1>3. CASE nv' = [nv EXCEPT ![SRK] = SrkObject]
  BY <1>1, <1>3, HandlesAssumption DEF HandlesInv, SRK, SrkObject
<1>4. CASE pr[p].key \in 1..minted /\ nv' = [nv EXCEPT ![Slot(p)] = pr[p].key]
  BY <1>1, <1>4, HandlesAssumption DEF HandlesInv, SRK, SrkObject, Slot
<1>5. CASE nv' = [nv EXCEPT ![Slot(p)] = Empty]
  BY <1>1, <1>5, HandlesAssumption DEF HandlesInv, SRK, SrkObject, Empty
<1>. QED
  BY <1>2, <1>3, <1>4, <1>5

LEMMA TypeStep == TypeInv /\ KeyInv /\ [Next]_vars => TypeInv'
<1>. SUFFICES ASSUME TypeInv, KeyInv, [Next]_vars PROVE TypeInv'
  OBVIOUS
<1>1. HandlesInv /\ SlotsInv /\ minted \in 0..MaxKeys /\ sealed \subseteq 1..minted
      /\ evicted \subseteq 1..minted /\ pr \in [Procs -> Programs] /\ minted \in Nat
  BY TypeInvByPart, HandlesAssumption
<1>2. CASE UNCHANGED vars
  BY <1>1, <1>2, TypeInvNext DEF vars, transient, HandlesInv, SlotsInv, Programs
<1>3. ASSUME NEW p \in Procs, NEW op \in Ops, NEW k \in 0..minted', Call(p, op, k),
             minted' \in 0..MaxKeys, minted <= minted'
      PROVE  TypeInv'
  <2>0. minted' \in Nat
    BY <1>3, HandlesAssumption
  <2>1. pr' \in [Procs -> Programs'] /\ UNCHANGED <<nv, loaded, leaked, sealed, evicted>>
    BY <1>1, <1>3, <2>0, CallBegins
  <2>2. HandlesInv'
    BY <1>1, <1>3, <2>1, HandlesAssumption DEF HandlesInv
  <2>3. SlotsInv'
    BY <1>1, <2>1 DEF SlotsInv
  <2>. QED
    BY <1>1, <1>3, <2>1, <2>2, <2>3, TypeInvNext, HandlesAssumption
<1>4. ASSUME NEW p \in Procs, CallSeal(p) PROVE TypeInv'
  BY <1>1, <1>3, <1>4, HandlesAssumption DEF CallSeal, Ops
<1>5. ASSUME NEW p \in Procs, CallOnSealed(p) PROVE TypeInv'
  BY <1>1, <1>3, <1>5, HandlesAssumption DEF CallOnSealed, Ops
(* A step in a call.                                                       *)
<1>6. ASSUME NEW p \in Procs, NEW pc, NEW made, NEW hit, NEW out, NEW rwk,
             Moved(p, pc, made, hit, out, rwk),
             HandlesInv', SlotsInv', sealed' \in {sealed, sealed \union {pr[p].key}},
             sealed' = sealed \/ pr[p].key \in 1..minted, evicted' \subseteq 1..minted
      PROVE  TypeInv'
  <2>1. pr' \in [Procs -> Programs'] /\ minted' = minted
    BY <1>6 DEF Moved, Programs
  <2>. QED
    BY <1>1, <1>6, <2>1, TypeInvNext
<1>7. ASSUME NEW p \in Procs, NEW pc, NEW made, NEW hit, NEW out, NEW rwk,
             Moved(p, pc, made, hit, out, rwk), Quiet
      PROVE  TypeInv'
  <2>1. HandlesInv' /\ SlotsInv'
    BY <1>1, <1>7 DEF HandlesInv, SlotsInv, Quiet, Moved
  <2>. QED
    BY <1>1, <1>6, <1>7, <2>1 DEF Quiet
<1>8. ASSUME NEW p \in Procs, SealCheck(p) \/ SrkCheck(p) \/ SrkAgain(p) \/ Check(p) PROVE TypeInv'
  BY <1>7, <1>8, ChecksEffect DEF Stays, Returns, On, Over
<1>9. ASSUME NEW p \in Procs, CreateSealed(p) \/ WorkDirFails(p) PROVE TypeInv'
  BY <1>7, <1>9, ToolsEffect, EndsEffect DEF Stays, Fails, Over
<1>10. ASSUME NEW p \in Procs, Unseal(p) PROVE TypeInv'
  <2>1. CASE Returns(p, "crypto_fail", 0)
    BY <1>7, <1>10, <2>1, EndsEffect DEF Returns
  <2>2. CASE nv[Slot(p)] # Empty /\ Return(p, "ok", nv[Slot(p)]) /\ minted' = minted
    <3>1. nv[Slot(p)] \in 0..minted
      BY <1>1, <2>2, SlotType DEF HandlesInv
    <3>2. Moved(p, "idle", pr[p].made, pr[p].hit, "ok", nv[Slot(p)])
      BY <1>1, <2>2, <3>1, ReturnMoves DEF Outs
    <3>. QED
      BY <1>7, <1>10, <3>2, EndsEffect
  <2>. QED
    BY <1>10, <2>1, <2>2, EndsEffect
(* A load, or a flush.                                                     *)
<1>11. ASSUME NEW p \in Procs, CreatePrimary(p) \/ LoadSealed(p) PROVE TypeInv'
  <2>1. UNCHANGED <<nv, sealed, minted, evicted>>
    BY <1>11, ToolsEffect DEF CreatePrimary, LoadSealed
  <2>2. SlotsInv'
    BY <1>1, <1>11, ToolsEffect, LoadKeepsSlots DEF SlotsInv
  <2>3. HandlesInv'
    BY <1>1, <2>1 DEF HandlesInv
  <2>. QED
    BY <1>1, <1>6, <1>11, <2>1, <2>2, <2>3, ToolsEffect DEF Stays, Fails
<1>12. ASSUME NEW p \in Procs, FlushSrk(p) \/ Crash(p) PROVE TypeInv'
  <2>1. UNCHANGED <<nv, sealed, minted, evicted>> /\ (Flushed(p) \/ Leaks(p))
    BY <1>12, EndsEffect DEF FlushSrk, Crash
  <2>2. HandlesInv' /\ SlotsInv'
    BY <1>1, <2>1, UnloadKeepsSlots DEF HandlesInv
  <2>. QED
    BY <1>1, <1>6, <1>12, <2>1, <2>2, EndsEffect DEF Stays, Returns
<1>13. ASSUME NEW p \in Procs, FlushSealed(p) PROVE TypeInv'
  <2>1. UNCHANGED <<nv, minted, evicted>> /\ Flushed(p) /\ pr[p].key \in 1..minted
    BY <1>13, EndsEffect DEF FlushSealed, KeyInv, At
  <2>2. HandlesInv' /\ SlotsInv'
    BY <1>1, <2>1, UnloadKeepsSlots DEF HandlesInv
  <2>. QED
    BY <1>1, <1>6, <1>13, <2>1, <2>2, EndsEffect DEF Returns
(* A handle changes.                                                       *)
<1>14. ASSUME NEW p \in Procs, PersistSrk(p) \/ PersistSealed(p) \/ Destroy(p) PROVE TypeInv'
  <2>1. UNCHANGED <<loaded, leaked, sealed, minted>>
    BY <1>14 DEF PersistSrk, PersistSealed, Destroy, transient
  <2>2. PersistSealed(p) => pr[p].key \in 1..minted
    BY DEF PersistSealed, At, KeyInv
  <2>3. HandlesInv'
    BY <1>14, <2>1, <2>2, ToolsEffect, EndsEffect, HandlesKept
  <2>4. SlotsInv'
    BY <1>1, <2>1 DEF SlotsInv
  <2>5. evicted' \subseteq 1..minted
    <3>1. nv[Slot(p)] # Empty => nv[Slot(p)] \in 1..minted
      BY <1>1, SlotType DEF HandlesInv
    <3>. QED
      BY <1>1, <1>14, <3>1, ToolsEffect, EndsEffect
  <2>. QED
    BY <1>1, <1>6, <1>14, <2>1, <2>3, <2>4, <2>5, ToolsEffect, EndsEffect DEF Stays, Fails, Returns
<1>. QED
  BY <1>2, <1>4, <1>5, <1>8, <1>9, <1>10, <1>11, <1>12, <1>13, <1>14 DEF Next, Seal
-----------------------------------------------------------------------------
(* Keys and transient objects.                                             *)

CallStep(p) == Seal(p) \/ Check(p) \/ Unseal(p) \/ Destroy(p) \/ Crash(p)

LEMMA NextByCall ==
  ASSUME [Next]_vars
  PROVE  \/ UNCHANGED vars
         \/ \E p \in Procs : CallSeal(p) \/ CallOnSealed(p) \/ CallStep(p)
  BY DEF Next, CallStep

(* A step in a call, of whatever call.                                     *)
Steps(p, pc) ==
  /\ \E made, hit, out, rwk : Moved(p, pc, made, hit, out, rwk)
  /\ pr[p].pc # "idle"
  /\ \/ sealed' = sealed
     \/ pr[p].op = "seal" /\ pc = "idle" /\ sealed' = sealed \union {pr[p].key}
  /\ loaded' \subseteq loaded \union {p} /\ (p \in loaded' => pc \in Loading)

LEMMA CallSteps ==
  ASSUME TypeInv, LoadedInv, NEW p \in Procs, CallStep(p)
  PROVE  \E pc : Steps(p, pc)
<1>1. p \in loaded => pr[p].pc \in Loading
  BY DEF LoadedInv
<1>2. CASE SealCheck(p) \/ SrkCheck(p) \/ SrkAgain(p) \/ Check(p)
  BY <1>1, <1>2, ChecksEffect DEF Stays, Returns, On, Over, Steps, Quiet, At, Loading
<1>3. CASE CreatePrimary(p) \/ PersistSrk(p)
  BY <1>1, <1>3, ToolsEffect DEF Stays, Fails, Steps, At, Loading
<1>4. CASE CreateSealed(p)
  BY <1>1, <1>4, ToolsEffect DEF Stays, Fails, Steps, At, Loading, Quiet
<1>5. CASE LoadSealed(p) \/ PersistSealed(p)
  BY <1>1, <1>5, ToolsEffect DEF Stays, Fails, Steps, At, Loading
<1>6. CASE FlushSrk(p)
  BY <1>6, EndsEffect DEF Stays, Steps, At, Flushed, Leaks
<1>7. CASE WorkDirFails(p)
  BY <1>1, <1>7, EndsEffect DEF Over, Steps, At, Loading, Quiet
<1>8. CASE FlushSealed(p)
  <2>1. loaded' = loaded \ {p}
    BY <1>8, EndsEffect DEF Flushed, Leaks
  <2>. QED
    BY <1>8, <2>1, EndsEffect DEF Returns, Steps, At
<1>9. CASE Unseal(p)
  <2>1. \E rwk : Moved(p, "idle", pr[p].made, pr[p].hit, "ok", rwk)
                 \/ Moved(p, "idle", pr[p].made, pr[p].hit, "crypto_fail", rwk)
    <3>1. pr \in [Procs -> Programs] /\ HandlesInv /\ minted \in Nat
      BY TypeInvByPart, HandlesAssumption
    <3>2. nv[Slot(p)] # Empty => nv[Slot(p)] \in 0..minted
      BY <3>1, SlotType DEF HandlesInv
    <3>3. "ok" \in Outs
      BY DEF Outs
    <3>. QED
      BY <1>9, <3>1, <3>2, <3>3, EndsEffect, ReturnMoves DEF Returns
  <2>2. At(p, "unseal", "use") /\ Quiet
    BY <1>9, EndsEffect
  <2>. QED
    BY <1>1, <2>1, <2>2 DEF Steps, At, Loading, Quiet
<1>10. CASE Destroy(p)
  BY <1>1, <1>10, EndsEffect DEF Returns, Steps, At, Loading
<1>11. CASE Crash(p)
  BY <1>11, EndsEffect DEF Returns, Steps, Leaks
<1>. QED
  BY <1>2, <1>3, <1>4, <1>5, <1>6, <1>7, <1>8, <1>9, <1>10, <1>11 DEF CallStep, Seal

RootInv == TypeInv /\ KeyInv /\ LoadedInv

LEMMA RootInit == Init => RootInv
<1>1. Init => KeyInv /\ LoadedInv
  BY DEF Init, KeyInv, LoadedInv, Enrols
<1>. QED
  BY <1>1, TypeInit DEF RootInv

(* KeyInv of the program p and of the other programs.                      *)
LEMMA KeysNext ==
  ASSUME TypeInv, KeyInv, NEW p \in Procs,
         \A q \in Procs : q # p => pr'[q] = pr[q],
         minted' \in Nat, minted <= minted',
         sealed \subseteq sealed',
         pr'[p].op # "none" => pr'[p].key \in 1..minted',
         pr'[p].op \in {"unseal", "destroy", "present"} => pr'[p].key \in sealed',
         Enrols(p)' => /\ pr'[p].key \notin sealed'
                       /\ \A q \in Procs : q # p /\ Enrols(q) => pr[q].key # pr'[p].key,
         \A q \in Procs : q # p /\ Enrols(q) => pr[q].key \notin sealed'
  PROVE  KeyInv'
<1>1. minted \in Nat
  BY HandlesAssumption DEF TypeInv
<1>2. \A q \in Procs : pr'[q].op # "none" => pr'[q].key \in 1..minted'
  BY <1>1 DEF KeyInv
<1>3. \A q \in Procs : pr'[q].op \in {"unseal", "destroy", "present"} => pr'[q].key \in sealed'
  BY DEF KeyInv
<1>4. \A q \in Procs : Enrols(q)' => pr'[q].key \notin sealed'
  BY DEF KeyInv, Enrols
<1>5. \A q, o \in Procs : q # o /\ Enrols(q)' /\ Enrols(o)' => pr'[q].key # pr'[o].key
  BY DEF KeyInv, Enrols
<1>. QED
  BY <1>2, <1>3, <1>4, <1>5 DEF KeyInv

LEMMA RootStep == RootInv /\ [Next]_vars => RootInv'
<1>. SUFFICES ASSUME RootInv, [Next]_vars PROVE KeyInv' /\ LoadedInv'
  BY TypeStep DEF RootInv
<1>1. TypeInv /\ KeyInv /\ LoadedInv
  BY DEF RootInv
<1>2. minted \in Nat /\ sealed \subseteq 1..minted /\ pr \in [Procs -> Programs]
  BY <1>1, HandlesAssumption DEF TypeInv
<1>3. CASE UNCHANGED vars
  BY <1>1, <1>3 DEF vars, transient, KeyInv, LoadedInv, Enrols
<1>4. ASSUME NEW p \in Procs, CallSeal(p) PROVE KeyInv' /\ LoadedInv'
  <2>0. minted' = minted + 1 /\ Call(p, "seal", minted')
    BY <1>4 DEF CallSeal
  <2>5. minted' \in Nat /\ minted <= minted' /\ minted' \in 0..minted' /\ "seal" \in Ops
    BY <1>2, <2>0 DEF Ops
  <2>1. /\ minted' = minted + 1 /\ pr[p].pc = "idle" /\ \A q \in Procs : q # p => pr'[q] = pr[q]
        /\ pr'[p].op = "seal" /\ pr'[p].key = minted' /\ UNCHANGED <<loaded, sealed>>
    BY <1>2, <2>0, <2>5, CallBegins
  <2>2. \A q \in Procs : Enrols(q) => pr[q].key \in 1..minted
    BY <1>1 DEF KeyInv, Enrols
  <2>3. KeyInv'
    BY <1>1, <1>2, <2>1, <2>2, KeysNext DEF KeyInv
  <2>. QED
    BY <1>1, <2>1, <2>3 DEF LoadedInv, Loading, TypeInv
<1>5. ASSUME NEW p \in Procs, CallOnSealed(p) PROVE KeyInv' /\ LoadedInv'
  <2>1. PICK k \in sealed, op \in {"unseal", "destroy", "present"} :
          Call(p, op, k) /\ UNCHANGED minted
    BY <1>5 DEF CallOnSealed
  <2>2. /\ pr[p].pc = "idle" /\ \A q \in Procs : q # p => pr'[q] = pr[q]
        /\ pr'[p].op = op /\ pr'[p].key = k /\ UNCHANGED <<loaded, sealed>>
    <3>1. op \in Ops /\ minted' \in Nat /\ minted <= minted' /\ k \in 0..minted'
      BY <1>2, <2>1 DEF Ops
    <3>. QED
      BY <1>2, <2>1, <3>1, CallBegins
  <2>3. KeyInv'
    BY <1>1, <1>2, <2>1, <2>2, KeysNext DEF KeyInv, Enrols
  <2>. QED
    BY <1>1, <2>2, <2>3 DEF LoadedInv, Loading, TypeInv
<1>6. ASSUME NEW p \in Procs, CallStep(p) PROVE KeyInv' /\ LoadedInv'
  <2>1. PICK pc : Steps(p, pc)
    BY <1>1, <1>6, CallSteps
  <2>2. /\ minted' = minted /\ \A q \in Procs : q # p => pr'[q] = pr[q]
        /\ pr'[p].op = pr[p].op /\ pr'[p].key = pr[p].key /\ pr'[p].pc = pc /\ pr[p].pc # "idle"
    BY <2>1 DEF Steps, Moved
  <2>3. KeyInv'
    <3>1. Enrols(p)' => Enrols(p) /\ sealed' = sealed
      BY <2>1, <2>2 DEF Enrols, Steps
    <3>2. sealed' # sealed => Enrols(p) /\ sealed' = sealed \union {pr[p].key}
      BY <2>1, <2>2 DEF Enrols, Steps
    <3>. QED
      BY <1>1, <1>2, <2>2, <3>1, <3>2, KeysNext DEF KeyInv
  <2>4. LoadedInv'
    BY <1>1, <2>1, <2>2 DEF LoadedInv, Steps, TypeInv
  <2>. QED
    BY <2>3, <2>4
<1>. QED
  BY <1>3, <1>4, <1>5, <1>6, NextByCall

LEMMA RootInvariant == Spec => []RootInv
  BY RootInit, RootStep, PTL DEF Spec

(* Every variable has its type, a handle holds a key of its own and the    *)
(* TPM is never loaded beyond its slots.                                   *)
THEOREM RootTypeCorrect == Spec => []TypeOK
<1>1. RootInv => TypeOK
  BY TypeInvTypeOK DEF RootInv
<1>. QED
  BY <1>1, RootInvariant, PTL

(* A program that has returned has flushed what it loaded, whichever tool  *)
(* call failed (keyroot.rs:381, :447).                                     *)
THEOREM NoTransientEverLeft == Spec => []NoTransientLeft
<1>1. RootInv => NoTransientLeft
  BY DEF RootInv, LoadedInv, Loading, NoTransientLeft
<1>. QED
  BY <1>1, RootInvariant, PTL
-----------------------------------------------------------------------------
(* What becomes of the handles, and what a call that ends has found.       *)

LEMMA HandleStep ==
  ASSUME TypeInv, NEW p \in Procs, CallStep(p)
  PROVE  \/ nv' = nv /\ evicted' = evicted
         \/ nv' = [nv EXCEPT ![SRK] = SrkObject] /\ evicted' = evicted
         \/ /\ Enrols(p) /\ nv[Slot(p)] = Empty /\ nv' = [nv EXCEPT ![Slot(p)] = pr[p].key]
            /\ evicted' = evicted
         \/ /\ At(p, "destroy", "use") /\ nv' = [nv EXCEPT ![Slot(p)] = Empty]
            /\ nv[Slot(p)] # Empty /\ evicted' = evicted \union {nv[Slot(p)]}
<1>1. CASE SealCheck(p) \/ SrkCheck(p) \/ SrkAgain(p) \/ Check(p) \/ CreateSealed(p)
           \/ WorkDirFails(p) \/ Unseal(p)
  BY <1>1, ChecksEffect, ToolsEffect, EndsEffect DEF Quiet
<1>2. CASE CreatePrimary(p) \/ LoadSealed(p) \/ FlushSrk(p) \/ FlushSealed(p) \/ Crash(p)
  BY <1>2, ToolsEffect, EndsEffect
<1>3. CASE PersistSrk(p) \/ PersistSealed(p)
  BY <1>3, ToolsEffect DEF At, Enrols
<1>4. CASE Destroy(p)
  BY <1>4, EndsEffect
<1>. QED
  BY <1>1, <1>2, <1>3, <1>4 DEF CallStep, Seal

(* A key handle keeps what it holds, unless an enrolment that found it     *)
(* empty fills it or a destroy of its own evicts it.                       *)
LEMMA KeyHandleStep ==
  ASSUME TypeInv, NEW p \in Procs, CallStep(p), NEW s \in 0..(Handles - 1)
  PROVE  /\ evicted \subseteq evicted'
         /\ \/ nv'[s] = nv[s]
            \/ Enrols(p) /\ s = Slot(p) /\ nv[s] = Empty /\ nv'[s] = pr[p].key
            \/ At(p, "destroy", "use") /\ s = Slot(p) /\ nv'[s] = Empty /\ nv[s] \in evicted'
<1>1. nv \in [0..Handles -> 0..SrkObject] /\ s \in 0..Handles /\ s # SRK
  BY HandlesAssumption DEF TypeInv, SRK
<1>. QED
  BY <1>1, HandleStep

(* How calls other than enrolments end.                                    *)
LEMMA CallEnds ==
  ASSUME TypeInv, NEW p \in Procs, CallStep(p), pr[p].op # "seal",
         pr'[p].pc = "idle", pr'[p].out # "none", ~pr'[p].hit
  PROVE  \/ Check(p) /\ pr[p].op \in {"unseal", "present"} /\ pr'[p].out = "not_found" /\ nv[Slot(p)] = Empty
         \/ Check(p) /\ pr[p].op = "present" /\ pr'[p].out = "ok"
         \/ Check(p) /\ pr[p].op = "destroy" /\ pr'[p].out = "ok" /\ nv[Slot(p)] = Empty /\ nv' = nv
         \/ Unseal(p) /\ pr[p].op = "unseal" /\ pr'[p].out \in {"ok", "crypto_fail"}
         \/ /\ Destroy(p) /\ pr[p].op = "destroy"
            /\ pr'[p].out = "ok" => nv' = [nv EXCEPT ![Slot(p)] = Empty]
            /\ pr'[p].out \in {"ok", "fail"}
<1>1. ~Seal(p)
  BY DEF Seal, SealCheck, SrkCheck, CreatePrimary, PersistSrk, FlushSrk, SrkAgain, WorkDirFails,
         CreateSealed, LoadSealed, PersistSealed, FlushSealed, At
<1>2. ~Crash(p)
  BY EndsEffect DEF Returns, Moved
<1>3. CASE Check(p)
  BY <1>3, ChecksEffect DEF Stays, Over, Moved, Quiet
<1>4. CASE Unseal(p)
  <2>1. pr'[p].out \in {"ok", "crypto_fail"}
    BY <1>4 DEF Unseal, Return, Ends, TypeInv, Programs
  <2>. QED
    BY <1>4, <2>1 DEF Unseal, At
<1>5. CASE Destroy(p)
  BY <1>5, EndsEffect DEF Returns, Moved, At
<1>. QED
  BY <1>1, <1>2, <1>3, <1>4, <1>5 DEF CallStep

(* A step that begins a call of p, or is no step.                          *)
LEMMA BeginningKeeps ==
  ASSUME TypeInv, NEW p \in Procs, CallSeal(p) \/ CallOnSealed(p)
  PROVE  /\ pr[p].pc = "idle" /\ pr'[p].pc = "check" /\ pr'[p].out = "none"
         /\ \A q \in Procs : q # p => pr'[q] = pr[q]
         /\ UNCHANGED <<nv, loaded, leaked, sealed, evicted>> /\ minted \in Nat /\ minted' \in Nat
         /\ minted <= minted'
         /\ CallSeal(p) => pr'[p].op = "seal" /\ pr'[p].key = minted + 1 /\ minted + 1 \in 1..MaxKeys
         /\ CallOnSealed(p) => pr'[p].op # "seal"
<1>1. minted \in Nat /\ sealed \subseteq 1..minted /\ pr \in [Procs -> Programs]
  BY HandlesAssumption DEF TypeInv
<1>2. CASE CallSeal(p)
  <2>1. /\ Call(p, "seal", minted + 1) /\ minted' = minted + 1 /\ "seal" \in Ops
        /\ minted + 1 \in 1..MaxKeys
    BY <1>1, <1>2, HandlesAssumption DEF CallSeal, Ops
  <2>2. minted' \in Nat /\ minted <= minted' /\ minted + 1 \in 0..minted'
    BY <1>1, <2>1
  <2>3. ~CallOnSealed(p)
    BY <1>1, <2>1 DEF CallOnSealed
  <2>. QED
    BY <1>1, <2>1, <2>2, <2>3, CallBegins
<1>3. CASE CallOnSealed(p)
  <2>1. PICK k \in sealed, op \in {"unseal", "destroy", "present"} :
          Call(p, op, k) /\ UNCHANGED minted
    BY <1>3 DEF CallOnSealed
  <2>2. op \in Ops /\ minted' \in Nat /\ minted <= minted' /\ k \in 0..minted'
    BY <1>1, <2>1 DEF Ops
  <2>3. ~CallSeal(p)
    BY <1>1, <2>1 DEF CallSeal
  <2>. QED
    BY <1>1, <2>1, <2>2, <2>3, CallBegins
<1>. QED
  BY <1>2, <1>3
LEMMA CallStepMoves ==
  ASSUME RootInv, NEW p \in Procs, CallStep(p)
  PROVE  /\ pr[p].pc # "idle" /\ pr'[p].op = pr[p].op /\ pr'[p].key = pr[p].key
         /\ \A q \in Procs : q # p => pr'[q] = pr[q]
  BY CallSteps DEF RootInv, Steps, Moved

-----------------------------------------------------------------------------
(* What destroy and the checks report.                                     *)

LEMMA DestroyedStep ==
  ASSUME RootInv, DestroyedIsGone, [Next]_vars
  PROVE  DestroyedIsGone'
<1>1. /\ TypeInv /\ KeyInv /\ minted \in Nat /\ pr \in [Procs -> Programs]
      /\ nv \in [0..Handles -> 0..SrkObject]
  BY HandlesAssumption DEF RootInv, TypeInv
<1>2. CASE UNCHANGED vars
  BY <1>2 DEF vars, transient, DestroyedIsGone, Slot, At
<1>3. ASSUME NEW p \in Procs, CallSeal(p) \/ CallOnSealed(p) PROVE DestroyedIsGone'
  BY <1>1, <1>3, BeginningKeeps DEF DestroyedIsGone, Slot, At
<1>4. ASSUME NEW p \in Procs, CallStep(p), NEW q \in Procs,
             At(q, "destroy", "idle")', pr'[q].out = "ok", ~pr'[q].hit
      PROVE  nv'[Slot(q)] # pr[q].key /\ pr'[q].key = pr[q].key
  <2>1. pr[q].key \in 1..minted /\ pr[q].key \in sealed /\ pr'[q].key = pr[q].key
    BY <1>1, <1>4, CallStepMoves DEF KeyInv, At
  <2>2. Slot(q) \in 0..(Handles - 1)
    BY <1>1, SlotType
  <2>3. CASE q = p
    <3>1. (nv[Slot(p)] = Empty /\ nv' = nv) \/ nv' = [nv EXCEPT ![Slot(p)] = Empty]
      <4>1. pr[p].op = "destroy" /\ pr'[p].pc = "idle" /\ pr'[p].out = "ok" /\ ~pr'[p].hit
        BY <1>4, <2>3, CallStepMoves DEF At
      <4>. QED
        BY <1>1, <1>4, <4>1, CallEnds
    <3>2. Slot(p) \in 0..Handles
      BY <2>2, <2>3, HandlesAssumption
    <3>3. nv'[Slot(p)] = Empty
      BY <1>1, <3>1, <3>2
    <3>. QED
      BY <1>1, <2>1, <2>3, <3>3 DEF Empty
  <2>4. CASE q # p
    <3>1. At(q, "destroy", "idle") /\ pr[q].out = "ok" /\ ~pr[q].hit
      BY <1>4, <2>4, CallStepMoves DEF At
    <3>2. nv[Slot(q)] # pr[q].key
      BY <3>1 DEF DestroyedIsGone
    <3>3. Enrols(p) => pr[p].key \notin sealed
      BY <1>1 DEF KeyInv
    <3>. QED
      BY <1>1, <1>4, <2>1, <2>2, <3>2, <3>3, KeyHandleStep DEF Empty
  <2>. QED
    BY <2>1, <2>3, <2>4
<1>5. ASSUME NEW p \in Procs, CallStep(p) PROVE DestroyedIsGone'
  BY <1>4, <1>5 DEF DestroyedIsGone, Slot
<1>. QED
  BY <1>2, <1>3, <1>5, NextByCall

(* A destroy that reported success has destroyed its key, whatever other   *)
(* programs did meanwhile (keyroot.rs:470), unless the getcap of its check *)
(* did not work: what comes of that is a finding.                          *)
THEOREM DestroyedAlwaysGone == Spec => []DestroyedIsGone
<1>1. Init => DestroyedIsGone
  BY DEF Init, DestroyedIsGone, At
<1>2. RootInv /\ DestroyedIsGone /\ [Next]_vars => DestroyedIsGone'
  BY DestroyedStep
<1>. QED
  BY <1>1, <1>2, RootInvariant, PTL DEF Spec

-----------------------------------------------------------------------------
(* Keys that share a handle.                                               *)

(* A key that was sealed is in its handle until a destroy takes it out.    *)
SealedInv ==
  /\ \A k \in sealed : nv[Handle(k)] = k \/ k \in evicted
  /\ \A p \in Procs : At(p, "seal", "flush") /\ pr[p].made
       => nv[Slot(p)] = pr[p].key \/ pr[p].key \in evicted

LEMMA KeyStays ==
  ASSUME TypeInv, NEW p \in Procs, CallStep(p), NEW k \in 1..minted,
         nv[Handle(k)] = k \/ k \in evicted
  PROVE  nv'[Handle(k)] = k \/ k \in evicted'
<1>1. k \in Nat /\ k # Empty
  BY HandlesAssumption DEF TypeInv, Empty
<1>2. Handle(k) \in 0..(Handles - 1)
  BY <1>1, HandleType
<1>. QED
  BY <1>1, <1>2, KeyHandleStep

(* An enrolment that is about to flush a sealed key has put it in place.   *)
LEMMA AtFlush ==
  ASSUME TypeInv, NEW p \in Procs, CallStep(p), pr'[p].pc = "flush", pr'[p].made
  PROVE  nv'[Slot(p)] = pr[p].key
<1>1. PersistSealed(p) /\ nv' = [nv EXCEPT ![Slot(p)] = pr[p].key]
  <2>1. ~SealCheck(p) /\ ~SrkCheck(p) /\ ~SrkAgain(p) /\ ~Check(p)
    BY ChecksEffect DEF Stays, Returns, On, Over, Moved
  <2>2. ~CreatePrimary(p) /\ ~PersistSrk(p) /\ ~CreateSealed(p) /\ ~LoadSealed(p)
    BY ToolsEffect DEF Stays, Fails, Moved
  <2>3. ~FlushSrk(p) /\ ~WorkDirFails(p) /\ ~FlushSealed(p) /\ ~Destroy(p) /\ ~Crash(p)
    BY EndsEffect DEF Stays, Returns, Over, Moved
  <2>4. ~Unseal(p)
    BY DEF Unseal, Return, Ends, TypeInv, Programs
  <2>5. PersistSealed(p)
    BY <2>1, <2>2, <2>3, <2>4 DEF CallStep, Seal
  <2>. QED
    BY <2>5, ToolsEffect DEF Fails, Moved
<1>2. Slot(p) \in 0..Handles /\ nv \in [0..Handles -> 0..SrkObject]
  BY SlotType, HandlesAssumption DEF TypeInv
<1>. QED
  BY <1>1, <1>2

LEMMA SealedStep ==
  ASSUME RootInv, SealedInv, [Next]_vars
  PROVE  SealedInv'
<1>1. TypeInv /\ KeyInv /\ LoadedInv /\ sealed \subseteq 1..minted
  BY DEF RootInv, TypeInv
<1>2. CASE UNCHANGED vars
  BY <1>2 DEF vars, transient, SealedInv, Slot, At
<1>3. ASSUME NEW p \in Procs, CallSeal(p) \/ CallOnSealed(p) PROVE SealedInv'
  BY <1>1, <1>3, BeginningKeeps DEF SealedInv, Slot, At
<1>4. ASSUME NEW p \in Procs, CallStep(p), NEW k \in sealed'
      PROVE  nv'[Handle(k)] = k \/ k \in evicted'
  <2>1. k \in 1..minted /\ (nv[Handle(k)] = k \/ k \in evicted)
    <3>1. CASE k \in sealed
      BY <1>1, <3>1 DEF SealedInv
    <3>2. CASE k \notin sealed
      <4>1. FlushSealed(p) /\ pr[p].made /\ k = pr[p].key
        <5>1. sealed' # sealed
          BY <1>4, <3>2
        <5>2. FlushSealed(p)
          BY <1>1, <1>4, <5>1, ChecksEffect, ToolsEffect, EndsEffect DEF CallStep, Seal, Quiet
        <5>. QED
          BY <1>1, <1>4, <3>2, <5>2, EndsEffect
      <4>2. At(p, "seal", "flush")
        BY <4>1 DEF FlushSealed
      <4>. QED
        BY <1>1, <4>1, <4>2 DEF SealedInv, KeyInv, Slot, At
    <3>. QED
      BY <3>1, <3>2
  <2>. QED
    BY <1>1, <1>4, <2>1, KeyStays
<1>5. ASSUME NEW p \in Procs, CallStep(p), NEW q \in Procs, At(q, "seal", "flush")', pr'[q].made
      PROVE  nv'[Handle(pr'[q].key)] = pr'[q].key \/ pr'[q].key \in evicted'
  <2>1. pr'[q].key = pr[q].key /\ pr'[q].op = pr[q].op
    BY <1>5, CallStepMoves
  <2>2. CASE q = p
    BY <1>1, <1>5, <2>1, <2>2, AtFlush DEF Slot, At
  <2>3. CASE q # p
    <3>1. pr'[q] = pr[q]
      BY <1>5, <2>3, CallStepMoves
    <3>2. pr[q].key \in 1..minted /\ (nv[Handle(pr[q].key)] = pr[q].key \/ pr[q].key \in evicted)
      BY <1>1, <1>5, <3>1 DEF SealedInv, KeyInv, Slot, At
    <3>. QED
      BY <1>1, <1>5, <3>1, <3>2, KeyStays
  <2>. QED
    BY <2>2, <2>3
<1>6. ASSUME NEW p \in Procs, CallStep(p) PROVE SealedInv'
  BY <1>4, <1>5, <1>6 DEF SealedInv, Slot
<1>. QED
  BY <1>2, <1>3, <1>6, NextByCall

LEMMA SealedInvariant == Spec => []SealedInv
<1>1. Init => SealedInv
  BY DEF Init, SealedInv, At
<1>2. RootInv /\ SealedInv /\ [Next]_vars => SealedInv'
  BY SealedStep
<1>. QED
  BY <1>1, <1>2, RootInvariant, PTL DEF Spec

LEMMA UnsealStep ==
  ASSUME RootInv, SealedInv, UnsealsOwnRwk, [Next]_vars
  PROVE  UnsealsOwnRwk'
<1>1. TypeInv /\ KeyInv /\ minted \in 0..MaxKeys /\ pr \in [Procs -> Programs]
  BY DEF RootInv, TypeInv
<1>2. CASE UNCHANGED vars
  BY <1>2 DEF vars, UnsealsOwnRwk, At
<1>3. ASSUME NEW p \in Procs, CallSeal(p) \/ CallOnSealed(p) PROVE UnsealsOwnRwk'
  BY <1>1, <1>3, BeginningKeeps DEF UnsealsOwnRwk, At
<1>4. ASSUME NEW p \in Procs, CallStep(p), At(p, "unseal", "idle")', pr'[p].out = "ok"
      PROVE  pr'[p].rwk = pr'[p].key \/ pr'[p].key \in evicted
  <2>1. pr[p].op = "unseal" /\ pr'[p].key = pr[p].key /\ pr[p].key \in sealed
    BY <1>1, <1>4, CallStepMoves DEF At, KeyInv
  <2>2. Unseal(p)
    <3>1. ~Seal(p) /\ ~Destroy(p)
      BY <2>1 DEF Seal, SealCheck, SrkCheck, CreatePrimary, PersistSrk, FlushSrk, SrkAgain,
                  WorkDirFails, CreateSealed, LoadSealed, PersistSealed, FlushSealed, Destroy, At
    <3>2. ~Crash(p) /\ ~Check(p)
      BY <1>1, <1>4, <2>1, ChecksEffect, EndsEffect DEF Returns, Stays, Over, Moved, At
    <3>. QED
      BY <1>4, <3>1, <3>2 DEF CallStep
  <2>3. nv[Slot(p)] # Empty /\ pr'[p].rwk = nv[Slot(p)]
    BY <1>1, <1>4, <2>2 DEF Unseal, Return, Ends, Programs
  <2>. QED
    BY <2>1, <2>3 DEF SealedInv, Slot
<1>5. ASSUME NEW p \in Procs, CallStep(p) PROVE UnsealsOwnRwk'
  <2>1. evicted \subseteq evicted'
    BY <1>1, <1>5, HandleStep
  <2>. QED
    BY <1>4, <1>5, <2>1, CallStepMoves DEF UnsealsOwnRwk, At
<1>. QED
  BY <1>2, <1>3, <1>5, NextByCall

(* What unseal_rwk returns is the RWK of the key it was asked for, with    *)
(* any number of programs evicting and enrolling and of ids sharing a      *)
(* handle (keyroot.rs:397), unless that key has been destroyed before.     *)
THEOREM AlwaysUnsealsOwnRwk == Spec => []UnsealsOwnRwk
<1>1. Init => UnsealsOwnRwk
  BY DEF Init, UnsealsOwnRwk, At
<1>2. RootInv /\ SealedInv /\ UnsealsOwnRwk /\ [Next]_vars => UnsealsOwnRwk'
  BY UnsealStep
<1>. QED
  BY <1>1, <1>2, RootInvariant, SealedInvariant, PTL DEF Spec

LEMMA OtherKeysStep ==
  ASSUME RootInv, SealedInv, [Next]_vars,
         NEW k \in sealed, nv[Handle(k)] = k, nv'[Handle(k)] # k
  PROVE  \E p \in Procs : /\ At(p, "destroy", "use")
                          /\ \/ pr[p].key = k
                             \/ Slot(p) = Handle(k) /\ pr[p].key \in evicted
<1>1. TypeInv /\ KeyInv /\ k \in Nat /\ k # Empty /\ Handle(k) \in 0..(Handles - 1)
  <2>1. TypeInv /\ KeyInv /\ minted \in 0..MaxKeys /\ sealed \subseteq 1..minted
    BY DEF RootInv, TypeInv
  <2>2. k \in Nat /\ k # Empty
    BY <2>1, HandlesAssumption DEF Empty
  <2>. QED
    BY <2>1, <2>2, HandleType
<1>2. ~UNCHANGED vars
  BY DEF vars
<1>3. PICK p \in Procs : CallStep(p)
  <2>1. ASSUME NEW p \in Procs, CallSeal(p) \/ CallOnSealed(p) PROVE FALSE
    BY <1>1, <2>1, BeginningKeeps
  <2>. QED
    BY <1>2, <2>1, NextByCall
<1>4. At(p, "destroy", "use") /\ Handle(k) = Slot(p)
  <2>. DEFINE s == Handle(k)
  <2>1. \/ nv'[s] = nv[s]
        \/ Enrols(p) /\ s = Slot(p) /\ nv[s] = Empty /\ nv'[s] = pr[p].key
        \/ At(p, "destroy", "use") /\ s = Slot(p) /\ nv'[s] = Empty
    BY <1>1, <1>3, KeyHandleStep
  <2>. QED
    BY <1>1, <2>1
<1>5. pr[p].key \in sealed
  BY <1>1, <1>4 DEF KeyInv, At
<1>6. pr[p].key = k \/ pr[p].key \in evicted
  BY <1>4, <1>5 DEF SealedInv, Slot
<1>. QED
  BY <1>3, <1>4, <1>6

(* A sealed key goes only through a destroy of that very key               *)
(* (keyroot.rs:101), or of one that has its handle and was destroyed       *)
(* before, however many ids share a handle (keyroot.rs:397).               *)
THEOREM DestroyAlwaysLeavesOtherKeys == Spec => DestroyLeavesOtherKeys
<1>1. RootInv /\ SealedInv /\ [Next]_vars
        => [\A k \in sealed : nv[Handle(k)] = k /\ nv'[Handle(k)] # k
              => \E p \in Procs : /\ At(p, "destroy", "use")
                                  /\ \/ pr[p].key = k
                                     \/ Slot(p) = Handle(k) /\ pr[p].key \in evicted]_vars
  BY OtherKeysStep
<1>. QED
  BY <1>1, RootInvariant, SealedInvariant, PTL DEF Spec, DestroyLeavesOtherKeys
-----------------------------------------------------------------------------
(* Enrolments beside each other.                                           *)

(* An enrolment that may fail for a good reason.                           *)
Excused(p) == pr[p].hit \/ Collides(p) \/ leaked + Cardinality(Procs) > MaxLoaded

(* How far the enrolment of p has come: its handle is free until it is     *)
(* filled, if it is its own, and the storage root key is there when it is  *)
(* needed.                                                                 *)
EnrolInvOf(p) ==
  /\ pr[p].op = "seal" /\ pr[p].pc \notin {"idle", "flush"} =>
        nv[Slot(p)] = Empty \/ Collides(p)
  /\ pr[p].op = "seal" /\ pr[p].pc \in {"create", "load", "evict"} => nv[SRK] # Empty
  /\ pr[p].op = "seal" /\ pr[p].pc \in {"flush_srk", "srk_again"} =>
        nv[SRK] # Empty \/ (~pr[p].made /\ Excused(p))
  /\ pr[p].op = "seal" /\ pr[p].pc = "flush" /\ ~pr[p].made => Excused(p)
  /\ At(p, "seal", "idle") /\ pr[p].out \in {"fail", "exists"} => Excused(p)

EnrolInv == \A p \in Procs : EnrolInvOf(p)

(* A TPM without room, but for what the running programs will unload, is   *)
(* one that killed programs have filled.                                   *)
LEMMA NoRoomExcuses ==
  ASSUME IsFiniteSet(Procs), TypeInv, NEW p \in Procs, p \notin loaded, ~HasRoom
  PROVE  leaked + Cardinality(Procs) > MaxLoaded
<1>1. /\ IsFiniteSet(Procs \ {p}) /\ Cardinality(Procs \ {p}) = Cardinality(Procs) - 1
      /\ Cardinality(Procs) \in Nat
  BY FS_RemoveElement, FS_CardinalityType
<1>2. loaded \in SUBSET (Procs \ {p})
  BY DEF TypeInv
<1>3. Cardinality(loaded) <= Cardinality(Procs \ {p}) /\ Cardinality(loaded) \in Nat
  BY <1>1, <1>2, FS_Subset, FS_CardinalityType
<1>. QED
  BY <1>1, <1>3, HandlesAssumption DEF TypeInv, HasRoom

(* The steps of another program leave the enrolment of q as it is.         *)
LEMMA SharedStep ==
  ASSUME RootInv, NEW p \in Procs, CallStep(p)
  PROVE  /\ nv[SRK] # Empty => nv'[SRK] # Empty
         /\ leaked \in Nat /\ leaked' \in Nat /\ leaked <= leaked'
<1>1. TypeInv /\ nv \in [0..Handles -> 0..SrkObject] /\ SRK \in 0..Handles /\ SrkObject # Empty
      /\ Slot(p) # SRK /\ leaked \in Nat /\ IsFiniteSet(loaded)
  BY SlotType, HandlesAssumption DEF RootInv, TypeInv, SRK, SrkObject, Empty
<1>2. nv[SRK] # Empty => nv'[SRK] # Empty
  BY <1>1, HandleStep
<1>3. leaked' \in Nat /\ leaked <= leaked'
  <2>1. CASE leaked' = leaked
    BY <1>1, <2>1
  <2>2. CASE (Seal(p) /\ ~FlushSrk(p) /\ ~FlushSealed(p)) \/ Check(p) \/ Unseal(p) \/ Destroy(p)
    BY <2>1, <2>2 DEF Seal, SealCheck, SrkCheck, SrkAgain, Check, CreateSealed, WorkDirFails, Unseal,
          CreatePrimary, LoadSealed, PersistSrk, PersistSealed, Destroy, transient
  <2>3. CASE FlushSrk(p) \/ FlushSealed(p)
    BY <1>1, <2>3, EndsEffect, FlushedKeepsCount
  <2>4. CASE Crash(p)
    BY <1>1, <2>4, EndsEffect, LeaksKeepCount
  <2>. QED
    BY <2>2, <2>3, <2>4 DEF CallStep
<1>. QED
  BY <1>1, <1>2, <1>3

(* A handle that two ids share stays so.                                   *)
LEMMA CollidesStays ==
  ASSUME minted \in Nat, minted' \in Nat, minted <= minted', NEW p \in Procs,
         pr'[p].key = pr[p].key, Collides(p)
  PROVE  Collides(p)'
  BY DEF Collides, Slot

(* No key id is given out within a call.                                   *)
LEMMA CallMints ==
  ASSUME RootInv, NEW p \in Procs, CallStep(p)
  PROVE  minted' = minted /\ minted \in Nat /\ minted' \in Nat /\ minted <= minted'
<1>1. minted' = minted
  BY CallSteps DEF RootInv, Steps, Moved
<1>. QED
  BY <1>1, HandlesAssumption DEF RootInv, TypeInv

LEMMA OtherEnrolKept ==
  ASSUME IsFiniteSet(Procs), RootInv, NEW p \in Procs, CallStep(p),
         NEW q \in Procs, q # p, EnrolInvOf(q)
  PROVE  EnrolInvOf(q)'
<1>0. Collides(q) => Collides(q)'
  BY CallStepMoves, CallMints, CollidesStays
<1>1. pr'[q] = pr[q] /\ (Excused(q) => Excused(q)') /\ (nv[SRK] # Empty => nv'[SRK] # Empty)
  <2>1. pr'[q] = pr[q]
    BY CallStepMoves
  <2>2. Cardinality(Procs) \in Nat
    BY FS_CardinalityType
  <2>. QED
    BY <1>0, <2>1, <2>2, SharedStep, HandlesAssumption DEF Excused
<1>2. ASSUME pr[q].op = "seal", pr[q].pc \notin {"idle", "flush"}
      PROVE  nv'[Slot(q)] = Empty \/ Collides(q)'
  <2>1. CASE Collides(q)
    BY <1>0, <2>1
  <2>2. CASE ~Collides(q)
    <3>1. /\ TypeInv /\ KeyInv /\ nv[Slot(q)] = Empty /\ Enrols(q)
          /\ Slot(q) \in 0..(Handles - 1)
      BY <1>2, <2>2, SlotType DEF EnrolInvOf, Enrols, RootInv, TypeInv
    <3>2. ~(Enrols(p) /\ Slot(q) = Slot(p))
      BY <2>2, <3>1 DEF KeyInv, Enrols, Collides, Slot
    <3>. QED
      BY <3>1, <3>2, KeyHandleStep
  <2>. QED
    BY <2>1, <2>2
<1>. QED
  BY <1>1, <1>2 DEF EnrolInvOf, At, Slot

LEMMA OwnEnrolKept ==
  ASSUME IsFiniteSet(Procs), RootInv, NEW p \in Procs, CallStep(p), EnrolInvOf(p)
  PROVE  EnrolInvOf(p)'
<1>1. /\ TypeInv /\ KeyInv /\ pr \in [Procs -> Programs] /\ minted \in 0..MaxKeys
      /\ nv \in [0..Handles -> 0..SrkObject]
      /\ p \in loaded => pr[p].pc \in Loading
  BY DEF RootInv, TypeInv, LoadedInv
<1>2. pr'[p].op = pr[p].op /\ pr'[p].key = pr[p].key /\ pr[p].pc # "idle" /\ Slot(p)' = Slot(p)
  BY CallStepMoves DEF Slot
<1>3. pr[p].hit \in BOOLEAN /\ pr[p].made \in BOOLEAN
  BY <1>1 DEF Programs
<1>0. Collides(p) => Collides(p)'
  BY <1>2, CallMints, CollidesStays
<1>4. Excused(p) /\ (pr[p].hit => pr'[p].hit) => Excused(p)'
  <2>1. Cardinality(Procs) \in Nat
    BY FS_CardinalityType
  <2>. QED
    BY <1>0, <2>1, SharedStep, HandlesAssumption DEF Excused
<1>5. pr'[p].hit => Excused(p)'
  BY DEF Excused
<1>6. nv[SRK] # Empty => nv'[SRK] # Empty
  BY SharedStep
<1>7. leaked + Cardinality(Procs) > MaxLoaded => Excused(p)'
  <2>1. Cardinality(Procs) \in Nat
    BY FS_CardinalityType
  <2>. QED
    BY <2>1, SharedStep, HandlesAssumption DEF Excused
<1>8. CASE pr[p].op # "seal"
  BY <1>2, <1>8 DEF EnrolInvOf, At
<1>. USE DEF EnrolInvOf, At
<1>9. CASE SealCheck(p)
  <2>1. nv' = nv /\ pr[p].op = "seal" /\ pr[p].pc = "check"
    BY <1>1, <1>9, ChecksEffect DEF Quiet
  <2>2. CASE nv[Slot(p)] # Empty /\ Returns(p, "exists", 0)
    BY <1>0, <1>2, <2>1, <2>2 DEF Returns, Moved, Excused
  <2>3. CASE \E hit \in BOOLEAN : On(p, "srk", hit)
    BY <1>0, <1>2, <2>1, <2>3 DEF On, Moved
  <2>. QED
    BY <1>1, <1>9, <2>2, <2>3, ChecksEffect
<1>10. CASE SrkCheck(p)
  BY <1>0, <1>1, <1>2, <1>10, ChecksEffect DEF On, Moved, Quiet
<1>11. CASE CreatePrimary(p)
  <2>1. ~HasRoom => Excused(p)'
    BY <1>1, <1>7, <1>11, NoRoomExcuses, ToolsEffect DEF Loading
  <2>. QED
    BY <1>0, <1>1, <1>2, <1>3, <1>5, <1>11, <2>1, ToolsEffect DEF Stays, Fails, Moved
<1>12. CASE PersistSrk(p)
  <2>1. SRK \in 0..Handles /\ Slot(p) # SRK /\ SrkObject # Empty
    BY <1>1, SlotType, HandlesAssumption DEF SRK, SrkObject, Empty
  <2>2. nv'[Slot(p)] = nv[Slot(p)]
    <3>1. Slot(p) \in 0..Handles
      BY <1>1, SlotType, HandlesAssumption
    <3>2. nv' = nv \/ nv' = [nv EXCEPT ![SRK] = SrkObject]
      BY <1>12 DEF PersistSrk
    <3>. QED
      BY <1>1, <2>1, <3>1, <3>2
  <2>3. CASE nv[SRK] = Empty /\ nv' = [nv EXCEPT ![SRK] = SrkObject] /\ Stays(p, "flush_srk", TRUE)
    <3>1. nv'[SRK] # Empty
      BY <1>1, <2>1, <2>3
    <3>. QED
      BY <1>0, <1>1, <1>2, <1>12, <2>2, <2>3, <3>1, ToolsEffect DEF Stays, Moved
  <2>4. CASE nv' = nv /\ Fails(p, "flush_srk", nv[SRK] # Empty)
    BY <1>0, <1>1, <1>2, <1>3, <1>5, <1>12, <2>4, ToolsEffect DEF Fails, Moved
  <2>. QED
    BY <1>1, <1>12, <2>3, <2>4, ToolsEffect
<1>13. CASE FlushSrk(p)
  BY <1>0, <1>1, <1>2, <1>4, <1>13, EndsEffect DEF Stays, Moved
<1>14. CASE SrkAgain(p)
  <2>1. nv' = nv /\ pr[p].op = "seal" /\ pr[p].pc = "srk_again"
    BY <1>1, <1>14, ChecksEffect DEF Quiet
  <2>2. ASSUME NEW hit \in BOOLEAN, nv[SRK] # Empty \/ pr[p].made, On(p, "create", hit)
        PROVE  EnrolInvOf(p)'
    BY <1>0, <1>1, <1>2, <2>1, <2>2 DEF On, Moved
  <2>3. ASSUME NEW hit \in BOOLEAN, ~pr[p].made, hit \/ nv[SRK] = Empty, Over(p, "fail", hit)
        PROVE  EnrolInvOf(p)'
    BY <1>0, <1>1, <1>2, <1>3, <1>4, <1>5, <2>1, <2>3 DEF Over, Moved
  <2>. QED
    BY <1>1, <1>14, <2>2, <2>3, ChecksEffect
<1>15. CASE WorkDirFails(p)
  BY <1>1, <1>2, <1>5, <1>15, EndsEffect DEF Over, Moved
<1>16. CASE CreateSealed(p)
  BY <1>0, <1>1, <1>2, <1>3, <1>5, <1>16, ToolsEffect DEF Stays, Fails, Moved, Quiet
<1>17. CASE LoadSealed(p)
  <2>1. ~HasRoom => Excused(p)'
    BY <1>1, <1>7, <1>17, NoRoomExcuses, ToolsEffect DEF Loading
  <2>. QED
    BY <1>0, <1>1, <1>2, <1>3, <1>5, <1>17, <2>1, ToolsEffect DEF Stays, Fails, Moved
<1>18. CASE PersistSealed(p)
  <2>1. nv[Slot(p)] # Empty => Excused(p)'
    BY <1>0, <1>1, <1>18, ToolsEffect DEF Excused
  <2>. QED
    BY <1>1, <1>2, <1>3, <1>5, <1>18, <2>1, ToolsEffect DEF Stays, Fails, Moved
<1>19. CASE FlushSealed(p)
  BY <1>1, <1>2, <1>4, <1>19, EndsEffect DEF Returns, Moved
<1>20. CASE Check(p) \/ Unseal(p) \/ Destroy(p)
  BY <1>1, <1>8, <1>20, ChecksEffect DEF Unseal, Destroy
<1>21. CASE Crash(p)
  BY <1>1, <1>2, <1>21, EndsEffect DEF Returns, Moved
<1>. QED
  BY <1>9, <1>10, <1>11, <1>12, <1>13, <1>14, <1>15, <1>16, <1>17, <1>18, <1>19, <1>20, <1>21
     DEF CallStep, Seal

LEMMA EnrolStep ==
  ASSUME IsFiniteSet(Procs), RootInv, EnrolInv, [Next]_vars
  PROVE  EnrolInv'
<1>1. TypeInv /\ minted \in 0..MaxKeys
  BY DEF RootInv, TypeInv
<1>2. CASE UNCHANGED vars
  BY <1>2 DEF vars, transient, EnrolInv, EnrolInvOf, Excused, Collides, Slot, At
<1>3. ASSUME NEW p \in Procs, CallSeal(p) \/ CallOnSealed(p), NEW q \in Procs
      PROVE  EnrolInvOf(q)'
  <2>1. CASE q # p
    <3>1. pr'[q] = pr[q] /\ nv' = nv /\ leaked' = leaked /\ (Collides(q) => Collides(q)')
      BY <1>1, <1>3, <2>1, BeginningKeeps, CollidesStays
    <3>. QED
      BY <3>1 DEF EnrolInv, EnrolInvOf, Excused, Slot, At
  <2>2. CASE q = p /\ CallSeal(p)
    <3>1. /\ pr'[p].op = "seal" /\ pr'[p].key = minted + 1 /\ minted + 1 \in 1..MaxKeys
          /\ pr'[p].pc = "check" /\ nv' = nv
      BY <1>1, <2>2, BeginningKeeps
    <3>2. nv[Handle(minted + 1)] = Empty \/ Collides(p)'
      <4>1. minted \in Nat /\ minted' = minted + 1 /\ Handle(minted + 1) \in 0..(Handles - 1)
        BY <1>1, <2>2, HandleType, HandlesAssumption DEF CallSeal
      <4>2. nv[Handle(minted + 1)] # Empty =>
              /\ nv[Handle(minted + 1)] \in 1..minted
              /\ Handle(nv[Handle(minted + 1)]) = Handle(minted + 1)
        BY <1>1, <4>1 DEF TypeInv
      <4>. QED
        BY <3>1, <4>1, <4>2 DEF Collides, Slot
    <3>. QED
      BY <2>2, <3>1, <3>2 DEF EnrolInvOf, Slot, At
  <2>3. CASE q = p /\ CallOnSealed(p)
    BY <1>1, <2>3, BeginningKeeps DEF EnrolInvOf, At
  <2>. QED
    BY <1>3, <2>1, <2>2, <2>3
<1>4. ASSUME NEW p \in Procs, CallStep(p), NEW q \in Procs
      PROVE  EnrolInvOf(q)'
  BY <1>4, OtherEnrolKept, OwnEnrolKept DEF EnrolInv
<1>. QED
  BY <1>2, <1>3, <1>4, NextByCall DEF EnrolInv

(* Any number of programs may enroll at the same time, also on a TPM that  *)
(* has no storage root key yet (keyroot.rs:371): an enrolment fails only   *)
(* by a tool that does not work, because another id has its handle, or     *)
(* where killed programs have taken the room.                              *)
THEOREM EnrolmentAlwaysSucceeds ==
  ASSUME IsFiniteSet(Procs)
  PROVE  Spec => []EnrolmentSucceeds
<1>1. Init => EnrolInv
  BY DEF Init, EnrolInv, EnrolInvOf, At
<1>2. RootInv /\ EnrolInv /\ [Next]_vars => EnrolInv'
  BY EnrolStep
<1>3. EnrolInv => EnrolmentSucceeds
  BY DEF EnrolInv, EnrolInvOf, EnrolmentSucceeds, Excused
<1>. QED
  BY <1>1, <1>2, <1>3, RootInvariant, PTL DEF Spec
=============================================================================
