-------------------------- MODULE CollectionProofs --------------------------
(***************************************************************************)
(* Proofs about Collection for every value of the constants.              *)
(***************************************************************************)
EXTENDS Collection, FiniteSetTheorems, SequenceTheorems, TLAPS

RowType == [id : RowIds, url : URLs]
LedgerType == [Ids -> URLs \cup {None}]

(* The rows of the file are records with a URL, indexed 1 .. Len(Rows).   *)
LEMMA RowsFacts ==
    /\ Len(Rows) \in Nat
    /\ DOMAIN Rows = 1 .. Len(Rows)
    /\ \A i \in DOMAIN Rows : Rows[i] \in RowType
<1>1. Rows \in Seq(RowType)
  BY RowsAssumption DEF RowType
<1>. QED
  BY <1>1, LenProperties

(* Normalizing and toggling the www. prefix keep a URL a URL.             *)
LEMMA NormalizeType ==
    ASSUME NEW u \in URLs
    PROVE  Normalize(u) \in URLs
BY DefaultSchemeAssumption DEF Normalize, URLs

LEMMA TogglePrefixType ==
    ASSUME NEW u \in URLs
    PROVE  TogglePrefix(u) \in URLs
BY DEF TogglePrefix, URLs

(* The target the loader gives a unit is a URL.                           *)
LEMMA TargetType ==
    ASSUME NEW id \in Ids
    PROVE  Target(id) \in URLs
<1>1. PICK i \in DOMAIN Rows, s \in 0 .. Samples - 1 : id = Id(i, s)
  BY DEF Ids
<1>2. id[1] = Rows[i].id
  BY <1>1 DEF Id
<1>3. LastRow(id[1]) \in DOMAIN Rows
  BY <1>2, LastRowAssumption DEF LastRow
<1>4. Rows[LastRow(id[1])].url \in URLs
  BY <1>3, RowsFacts DEF RowType
<1>. QED
  BY <1>4, NormalizeType DEF Target

(* The loader builds a ledger of URLs and a natural counter.              *)
LEMMA LoadedWorkType ==
    ASSUME NEW d
    PROVE  LoadedWork(d) \in LedgerType
BY TargetType DEF LoadedWork, LedgerType

LEMMA LoadedDoneType ==
    ASSUME NEW d
    PROVE  LoadedDone(d) \in Nat
<1> DEFINE P == (DOMAIN Rows) \X (0 .. Samples - 1)
<1>1. IsFiniteSet(P)
  <2>1. IsFiniteSet(DOMAIN Rows)
    BY RowsFacts, FS_Interval
  <2>2. IsFiniteSet(0 .. Samples - 1)
    BY SamplesAssumption, FS_Interval
  <2>. QED
    BY <2>1, <2>2, FS_Product
<1>2. IsFiniteSet({p \in P : d[Id(p[1], p[2])] # "none"})
  BY <1>1, FS_Subset
<1>. QED
  BY <1>2, FS_CardinalityType DEF LoadedDone

-----------------------------------------------------------------------------
(* Handing out work from a ledger of URLs keeps the ledger and the reply  *)
(* well typed.                                                            *)
LEMMA AssignType ==
    ASSUME NEW w \in Workers, NEW l \in LedgerType,
           rpl \in [Workers -> Browse \cup {None}],
           Assign(w, l)
    PROVE  /\ work' \in LedgerType
           /\ rpl' \in [Workers -> Browse \cup {None}]
<1>1. CASE Pending(l) # {}
  <2>1. PICK id \in Pending(l) :
            /\ work' = [l EXCEPT ![id] = None]
            /\ rpl' = [rpl EXCEPT ![w] = [id |-> id, url |-> l[id], len |-> 0]]
    BY <1>1 DEF Assign
  <2>2. l[id] \in URLs
    BY DEF Pending, LedgerType
  <2>. QED
    BY <2>1, <2>2 DEF Pending, LedgerType, Browse
<1>2. CASE Pending(l) = {}
  BY <1>2 DEF Assign, Browse, NoWork
<1>. QED
  BY <1>1, <1>2

(* Both workers' browse steps only set the length of the payload the     *)
(* worker will report.                                                    *)
LEMMA BrowseStep ==
    ASSUME NEW w \in Workers, PcapBrowse(w) \/ TorBrowse(w)
    PROVE  /\ phase[w] = "browse"
           /\ \E n \in Nat : req' = [req EXCEPT ![w].len = n]
           /\ phase' = [phase EXCEPT ![w] = "call"]
           /\ UNCHANGED <<coordVars, faults, lost>>
<1>1. CASE PcapBrowse(w)
  <2>1. PICK k \in 0 .. MaxPackets : req' = [req EXCEPT ![w].len = Captured(k)]
    BY <1>1 DEF PcapBrowse
  <2>2. Captured(k) \in Nat
    BY LengthsAssumption DEF Captured, PcapHeaderLen
  <2>. QED
    BY <1>1, <2>1, <2>2 DEF PcapBrowse
<1>2. CASE TorBrowse(w)
  <2>1. PICK n \in TorPayloads : req' = [req EXCEPT ![w].len = n]
    BY <1>2 DEF TorBrowse
  <2>2. n \in Nat
    BY LengthsAssumption DEF TorPayloads, NoneLen
  <2>. QED
    BY <1>2, <2>1, <2>2 DEF TorBrowse
<1>. QED
  BY <1>1, <1>2

(* The initial states are well typed.                                    *)
LEMMA TypeInit == Init => TypeOK
<1> SUFFICES ASSUME Init PROVE TypeOK
  OBVIOUS
<1>1. work \in LedgerType /\ done \in Nat
  BY LoadedWorkType, LoadedDoneType DEF Init, CoordInit
<1>2. rpl \in [Workers -> Browse \cup {None}] /\ req \in [Workers -> Browse]
  BY DEF Init, CoordInit, Browse, NoWork
<1>3. faults \in [loss : 0 .. MaxLoss, crash : 0 .. MaxCrash, restart : 0 .. MaxRestart]
  BY BoundsAssumption DEF Init
<1>4. disk \in [Ids -> FileStates]
  BY PriorFilesAssumption DEF Init, CoordInit
<1>5. writeFails \in 0 .. MaxWriteFail
  <2>1. writeFails = 0
    BY DEF Init, CoordInit
  <2>. QED
    BY <2>1, MaxWriteFailAssumption
<1>6. exited \in BOOLEAN /\ workers \subseteq Workers
  BY DEF Init, CoordInit
<1>7. phase \in [Workers -> {"call", "reply", "browse"}] /\ lost \subseteq Ids
  BY DEF Init
<1>. QED
  BY <1>1, <1>2, <1>3, <1>4, <1>5, <1>6, <1>7 DEF TypeOK, LedgerType

(* Every step keeps the state well typed.                                 *)
LEMMA TypeStep == TypeOK /\ [Next]_vars => TypeOK'
<1> SUFFICES ASSUME TypeOK, [Next]_vars PROVE TypeOK'
  OBVIOUS
<1>1. ASSUME NEW w \in Workers, Call(w) PROVE TypeOK'
  <2>1. req[w] \in Browse /\ phase[w] = "call"
    BY <1>1 DEF TypeOK, Call
  <2> DEFINE in == req[w]
  <2>2. Work(w, in)
    BY <1>1 DEF Call
  <2>3. UNCHANGED <<req, faults, lost, exited>> /\ workers' = workers \cup {w}
    BY <1>1, <2>2 DEF Call, Work
  <2>4. phase' \in [Workers -> {"call", "reply", "browse"}]
    BY <1>1 DEF Call, TypeOK
  <2>5. CASE in.id = None /\ Assign(w, work) /\ UNCHANGED <<done, disk, writeFails>>
    <3>1. work' \in LedgerType /\ rpl' \in [Workers -> Browse \cup {None}]
      BY <2>5, AssignType DEF TypeOK, LedgerType
    <3>. QED
      BY <2>3, <2>4, <2>5, <3>1 DEF TypeOK, LedgerType
  <2>6. CASE in.id # None /\ in.len >= MinDataLen /\ StoreOk(in)
               /\ Assign(w, [work EXCEPT ![in.id] = None])
    <3>1. in.id \in Ids
      BY <2>1, <2>6 DEF Browse
    <3>2. [work EXCEPT ![in.id] = None] \in LedgerType
      BY <3>1 DEF TypeOK, LedgerType
    <3>3. disk' \in [Ids -> FileStates] /\ done' \in Nat /\ writeFails' = writeFails
      BY <2>6, <3>1 DEF StoreOk, TypeOK, FileStates
    <3>4. work' \in LedgerType /\ rpl' \in [Workers -> Browse \cup {None}]
      BY <2>6, <3>2, AssignType DEF TypeOK
    <3>. QED
      BY <2>3, <2>4, <3>3, <3>4 DEF TypeOK, LedgerType
  <2>7. CASE in.id # None /\ in.len >= MinDataLen /\ StoreFail(in)
               /\ rpl' = [rpl EXCEPT ![w] = None] /\ UNCHANGED work
    <3>1. in.id \in Ids
      BY <2>1, <2>7 DEF Browse
    <3>. QED
      BY <2>3, <2>4, <2>7, <3>1, MaxWriteFailAssumption DEF StoreFail, TypeOK, FileStates
  <2>8. CASE in.id # None /\ in.len < MinDataLen
               /\ Assign(w, [work EXCEPT ![in.id] = TogglePrefix(in.url)])
               /\ UNCHANGED <<done, disk, writeFails>>
    <3>1. in.id \in Ids /\ in.url \in URLs
      BY <2>1, <2>8 DEF Browse
    <3>2. [work EXCEPT ![in.id] = TogglePrefix(in.url)] \in LedgerType
      BY <3>1, TogglePrefixType DEF TypeOK, LedgerType
    <3>3. work' \in LedgerType /\ rpl' \in [Workers -> Browse \cup {None}]
      BY <2>8, <3>2, AssignType DEF TypeOK
    <3>. QED
      BY <2>3, <2>4, <2>8, <3>3 DEF TypeOK, LedgerType
  <2>. QED
    BY <2>2, <2>5, <2>6, <2>7, <2>8 DEF Work
<1>2. ASSUME NEW w \in Workers, Receive(w) PROVE TypeOK'
  BY <1>2 DEF Receive, TypeOK, coordVars, Browse
<1>3. ASSUME NEW w \in Workers, PcapBrowse(w) \/ TorBrowse(w) PROVE TypeOK'
  <2>1. PICK n \in Nat : req' = [req EXCEPT ![w].len = n]
    BY <1>3, BrowseStep
  <2>. QED
    BY <1>3, <2>1, BrowseStep DEF TypeOK, coordVars, Browse
<1>4. ASSUME NEW w \in Workers, LoseReply(w) PROVE TypeOK'
  <2>1. rpl[w] \in Browse
    BY <1>4 DEF LoseReply, TypeOK
  <2>2. lost' \subseteq Ids
    BY <1>4, <2>1 DEF LoseReply, TypeOK, Browse
  <2>3. faults' \in [loss : 0 .. MaxLoss, crash : 0 .. MaxCrash, restart : 0 .. MaxRestart]
    BY <1>4, BoundsAssumption DEF LoseReply, TypeOK
  <2>. QED
    BY <1>4, <2>2, <2>3 DEF LoseReply, TypeOK, coordVars
<1>5. ASSUME NEW w \in Workers, WorkerRestart(w) PROVE TypeOK'
  <2>1. Held(w) \in Ids \cup {None}
    BY DEF Held, TypeOK, Browse
  <2>2. lost' \subseteq Ids
    BY <1>5, <2>1 DEF WorkerRestart, TypeOK
  <2>3. faults' \in [loss : 0 .. MaxLoss, crash : 0 .. MaxCrash, restart : 0 .. MaxRestart]
    BY <1>5, BoundsAssumption DEF WorkerRestart, TypeOK
  <2>4. req' \in [Workers -> Browse] /\ phase' \in [Workers -> {"call", "reply", "browse"}]
    BY <1>5 DEF WorkerRestart, TypeOK, Browse, NoWork
  <2>. QED
    BY <1>5, <2>2, <2>3, <2>4 DEF WorkerRestart, TypeOK, coordVars
<1>6. CASE Progress /\ UNCHANGED <<req, phase, faults, lost>>
  BY <1>6 DEF Progress, TypeOK
<1>7. CASE ServerRestart
  <2>1. work' \in LedgerType /\ done' \in Nat
    BY <1>7, LoadedWorkType, LoadedDoneType DEF ServerRestart, Reload
  <2>2. faults' \in [loss : 0 .. MaxLoss, crash : 0 .. MaxCrash, restart : 0 .. MaxRestart]
    BY <1>7, BoundsAssumption DEF ServerRestart, TypeOK
  <2>3. phase' \in [Workers -> {"call", "reply", "browse"}]
    BY <1>7 DEF ServerRestart, TypeOK
  <2>. QED
    BY <1>7, <2>1, <2>2, <2>3 DEF ServerRestart, Reload, TypeOK, LedgerType
<1>8. CASE Finished \/ UNCHANGED vars
  BY <1>8 DEF Finished, vars, coordVars, TypeOK
<1>. QED
  BY <1>1, <1>2, <1>3, <1>4, <1>5, <1>6, <1>7, <1>8 DEF Next

(* Every reachable state is well typed.                                   *)
THEOREM TypeCorrect == Spec => []TypeOK
BY TypeInit, TypeStep, PTL DEF Spec
-----------------------------------------------------------------------------
(* The unit a worker holds depends only on that worker's state.          *)
LEMMA HeldFrame ==
    ASSUME NEW v, phase'[v] = phase[v], rpl'[v] = rpl[v], req'[v] = req[v]
    PROVE  Held(v)' = Held(v)
BY DEF Held

(* Assign hands out a unit that was pending in l, so a unit pending in    *)
(* neither l nor the new ledger stays so, and the unit handed out is not  *)
(* one of them.                                                           *)
LEMMA AssignStep ==
    ASSUME NEW w \in Workers, NEW l \in LedgerType, NEW H \in SUBSET Ids,
           \A x \in H : l[x] = None,
           rpl \in [Workers -> Browse \cup {None}],
           Assign(w, l)
    PROVE  /\ \A x \in H : work'[x] = None
           /\ rpl' = [rpl EXCEPT ![w] = rpl'[w]]
           /\ rpl'[w] # None
           /\ rpl'[w].id # None => rpl'[w].id \in Ids \ H /\ work'[rpl'[w].id] = None
<1>1. CASE Pending(l) # {}
  <2>1. PICK id \in Pending(l) :
            /\ work' = [l EXCEPT ![id] = None]
            /\ rpl' = [rpl EXCEPT ![w] = [id |-> id, url |-> l[id], len |-> 0]]
    BY <1>1 DEF Assign
  <2>2. id \in Ids /\ l[id] \in URLs
    BY DEF Pending, LedgerType
  <2>3. id \notin H
    BY <2>2, NoneAssumption
  <2>4. \A x \in H : work'[x] = None
    BY <2>1 DEF LedgerType
  <2>5. rpl'[w] = [id |-> id, url |-> l[id], len |-> 0]
    BY <2>1
  <2>6. rpl'[w] \in Browse
    BY <2>2, <2>5 DEF Browse
  <2>7. rpl'[w] # None
    BY <2>6, NoneAssumption
  <2>8. work'[id] = None
    BY <2>1, <2>2 DEF LedgerType
  <2>9. rpl' = [rpl EXCEPT ![w] = rpl'[w]]
    BY <2>1
  <2>. QED
    BY <2>2, <2>3, <2>4, <2>5, <2>7, <2>8, <2>9
<1>2. CASE Pending(l) = {}
  <2>1. work' = l /\ rpl' = [rpl EXCEPT ![w] = NoWork]
    BY <1>2 DEF Assign
  <2>2. NoWork \in Browse
    BY DEF NoWork, Browse
  <2>3. NoWork # None
    BY <2>2, NoneAssumption
  <2>. QED
    BY <2>1, <2>3 DEF NoWork
<1>. QED
  BY <1>1, <1>2

(* In the initial states no worker holds a unit.                         *)
LEMMA NoDupInit == Init => NoDuplicateWork
<1> SUFFICES ASSUME Init PROVE NoDuplicateWork
  OBVIOUS
<1>1. \A w \in Workers : Held(w) = None
  BY DEF Init, Held, NoWork
<1>. QED
  BY <1>1 DEF NoDuplicateWork

(* Without lost replies and restarts every step keeps each unit in at most *)
(* one place.                                                             *)
LEMMA NoDupStep ==
    ASSUME MaxLoss = 0, MaxRestart = 0
    PROVE  TypeOK /\ NoDuplicateWork /\ [Next]_vars => NoDuplicateWork'
<1> SUFFICES ASSUME TypeOK, NoDuplicateWork, [Next]_vars PROVE NoDuplicateWork'
  OBVIOUS
<1>1. ASSUME NEW w \in Workers, Call(w) PROVE NoDuplicateWork'
  <2> DEFINE in == req[w]
             H == {Held(v) : v \in Workers \ {w}} \ {None}
  <2>1. phase[w] = "call" /\ Held(w) = in.id /\ in \in Browse /\ Work(w, in)
    BY <1>1 DEF Call, Held, TypeOK
  <2>2. \A v \in Workers \ {w} : Held(v)' = Held(v)
    BY <1>1, HeldFrame DEF Call, Work, Assign, TypeOK
  <2>3. H \in SUBSET Ids /\ \A x \in H : work[x] = None
    BY DEF NoDuplicateWork, Held, TypeOK, Browse
  <2>4. in.id # None => in.id \notin H
    BY <2>1 DEF NoDuplicateWork
  <2> HIDE DEF H
  <2>5. ASSUME \A x \in H : work'[x] = None,
               Held(w)' = None \/ (Held(w)' \in Ids \ H /\ work'[Held(w)'] = None)
        PROVE  NoDuplicateWork'
    <3>1. \A v \in Workers \ {w} : Held(v)' # None => Held(v)' \in H
      BY <2>2 DEF H
    <3>2. \A v \in Workers : Held(v)' # None => work'[Held(v)'] = None
      BY <2>5, <3>1
    <3>3. \A v, u \in Workers : v # u /\ Held(v)' # None => Held(v)' # Held(u)'
      <4> SUFFICES ASSUME NEW v \in Workers, NEW u \in Workers, v # u, Held(v)' # None
                   PROVE  Held(v)' # Held(u)'
        OBVIOUS
      <4>1. CASE v = w
        BY <4>1, <2>5, <3>1
      <4>2. CASE u = w
        BY <4>2, <2>5, <3>1
      <4>3. CASE v # w /\ u # w
        BY <4>3, <2>2 DEF NoDuplicateWork
      <4>. QED
        BY <4>1, <4>2, <4>3
    <3>. QED
      BY <3>2, <3>3 DEF NoDuplicateWork
  <2>6. phase'[w] = "reply"
    BY <1>1 DEF Call, TypeOK
  <2>7. rpl'[w] # None => Held(w)' = rpl'[w].id
    BY <2>6 DEF Held
  <2>8. CASE in.id = None /\ Assign(w, work) /\ UNCHANGED <<done, disk, writeFails>>
    <3>1. work \in LedgerType /\ rpl \in [Workers -> Browse \cup {None}]
      BY DEF TypeOK, LedgerType
    <3>2. /\ \A x \in H : work'[x] = None
          /\ rpl'[w] # None
          /\ rpl'[w].id # None => rpl'[w].id \in Ids \ H /\ work'[rpl'[w].id] = None
      BY <2>3, <2>8, <3>1, AssignStep
    <3>. QED
      BY <2>5, <2>7, <3>2
  <2>9. CASE in.id # None /\ in.len >= MinDataLen /\ StoreOk(in)
               /\ Assign(w, [work EXCEPT ![in.id] = None])
    <3> DEFINE l == [work EXCEPT ![in.id] = None]
    <3>1. l \in LedgerType /\ \A x \in H : l[x] = None
      BY <2>3 DEF TypeOK, LedgerType
    <3>2. rpl \in [Workers -> Browse \cup {None}]
      BY DEF TypeOK
    <3>6. Assign(w, l)
      BY <2>9
    <3> HIDE DEF l
    <3>3. /\ \A x \in H : work'[x] = None
          /\ rpl'[w] # None
          /\ rpl'[w].id # None => rpl'[w].id \in Ids \ H /\ work'[rpl'[w].id] = None
      BY <2>3, <3>1, <3>2, <3>6, AssignStep
    <3>. QED
      BY <2>5, <2>7, <3>3
  <2>10. CASE in.id # None /\ in.len >= MinDataLen /\ StoreFail(in)
               /\ rpl' = [rpl EXCEPT ![w] = None] /\ UNCHANGED work
    <3>1. rpl'[w] = None
      BY <2>10 DEF TypeOK
    <3>2. Held(w)' = in.id
      BY <1>1, <3>1 DEF Call, Held
    <3>3. in.id \in Ids /\ work[in.id] = None
      BY <2>1, <2>10 DEF NoDuplicateWork, Browse
    <3>. QED
      BY <2>3, <2>4, <2>5, <2>10, <3>2, <3>3
  <2>11. CASE in.id # None /\ in.len < MinDataLen
               /\ Assign(w, [work EXCEPT ![in.id] = TogglePrefix(in.url)])
               /\ UNCHANGED <<done, disk, writeFails>>
    <3> DEFINE l == [work EXCEPT ![in.id] = TogglePrefix(in.url)]
    <3>1. in.id \in Ids /\ in.url \in URLs
      BY <2>1, <2>11 DEF Browse
    <3>2. TogglePrefix(in.url) \in URLs
      BY <3>1, TogglePrefixType
    <3>3. l \in LedgerType /\ \A x \in H : l[x] = None
      BY <2>3, <2>4, <2>11, <3>1, <3>2 DEF TypeOK, LedgerType
    <3>4. rpl \in [Workers -> Browse \cup {None}]
      BY DEF TypeOK
    <3>6. Assign(w, l)
      BY <2>11
    <3> HIDE DEF l
    <3>5. /\ \A x \in H : work'[x] = None
          /\ rpl'[w] # None
          /\ rpl'[w].id # None => rpl'[w].id \in Ids \ H /\ work'[rpl'[w].id] = None
      BY <2>3, <3>3, <3>4, <3>6, AssignStep
    <3>. QED
      BY <2>5, <2>7, <3>5
  <2>. QED
    BY <2>1, <2>8, <2>9, <2>10, <2>11 DEF Work
<1>2. ASSUME NEW w \in Workers, Receive(w) PROVE NoDuplicateWork'
  <2>1. \A v \in Workers : Held(v)' = Held(v)
    BY <1>2 DEF Receive, Held, coordVars, TypeOK
  <2>. QED
    BY <1>2, <2>1 DEF Receive, NoDuplicateWork, coordVars
<1>3. ASSUME NEW w \in Workers, PcapBrowse(w) \/ TorBrowse(w) PROVE NoDuplicateWork'
  <2>1. \A v \in Workers : Held(v)' = Held(v)
    BY <1>3, BrowseStep DEF Held, coordVars, TypeOK, Browse
  <2>. QED
    BY <1>3, <2>1, BrowseStep DEF NoDuplicateWork, coordVars
<1>4. ASSUME NEW w \in Workers, LoseReply(w) PROVE FALSE
  BY <1>4 DEF LoseReply, TypeOK
<1>5. ASSUME NEW w \in Workers, WorkerRestart(w) PROVE NoDuplicateWork'
  <2>1. Held(w)' = None /\ \A v \in Workers \ {w} : Held(v)' = Held(v)
    BY <1>5 DEF WorkerRestart, Held, coordVars, NoWork, TypeOK
  <2>. QED
    BY <1>5, <2>1 DEF WorkerRestart, NoDuplicateWork, coordVars
<1>6. CASE Progress /\ UNCHANGED <<req, phase, faults, lost>>
  <2>1. \A v \in Workers : Held(v)' = Held(v)
    BY <1>6 DEF Progress, Held
  <2>. QED
    BY <1>6, <2>1 DEF Progress, NoDuplicateWork
<1>7. CASE ServerRestart
  BY <1>7 DEF ServerRestart, TypeOK
<1>8. CASE Finished \/ UNCHANGED vars
  <2>1. \A v \in Workers : Held(v)' = Held(v)
    BY <1>8 DEF Finished, vars, coordVars, Held
  <2>. QED
    BY <1>8, <2>1 DEF Finished, vars, coordVars, NoDuplicateWork
<1>. QED
  BY <1>1, <1>2, <1>3, <1>4, <1>5, <1>6, <1>7, <1>8 DEF Next

(* Under a reliable transport and without server restarts, no unit is     *)
(* ever both pending in the ledger and held by a worker, nor held by two  *)
(* workers: Work's deferred delete, the re-queue of a short result and a   *)
(* worker's resend after a failed store never duplicate a unit.           *)
THEOREM NoDuplicateWorkReliable ==
    ASSUME MaxLoss = 0, MaxRestart = 0
    PROVE  Spec => []NoDuplicateWork
<1> DEFINE IInv == TypeOK /\ NoDuplicateWork
<1>1. Init => IInv
  BY TypeInit, NoDupInit
<1>2. IInv /\ [Next]_vars => IInv'
  BY NoDupStep, TypeStep
<1>. QED
  BY <1>1, <1>2, PTL DEF Spec
-----------------------------------------------------------------------------
(* The result files that count as done, and the strengthening that no     *)
(* unit still pending or held has a stored file.                          *)
StoredSet == {id \in Ids : disk[id] = "stored"}
StoredNotLive ==
    /\ \A id \in Ids : work[id] # None => disk[id] # "stored"
    /\ \A w \in Workers : Held(w) # None => disk[Held(w)] # "stored"

(* The rows of the pages file have distinct ids.                          *)
UniqueRowIds == \A i, j \in DOMAIN Rows : Rows[i].id = Rows[j].id => i = j

(* The set of units is finite.                                            *)
LEMMA IdsFinite == IsFiniteSet(Ids)
<1> DEFINE P == (DOMAIN Rows) \X (0 .. Samples - 1)
           IdOf(p) == Id(p[1], p[2])
<1>1. IsFiniteSet(P)
  <2>1. IsFiniteSet(DOMAIN Rows)
    BY RowsFacts, FS_Interval
  <2>2. IsFiniteSet(0 .. Samples - 1)
    BY SamplesAssumption, FS_Interval
  <2>. QED
    BY <2>1, <2>2, FS_Product
<1> DEFINE f == [p \in P |-> IdOf(p)]
<1>2. f \in [P -> Ids]
  BY DEF Ids
<1>3. \A id \in Ids : \E p \in P : f[p] = id
  <2> SUFFICES ASSUME NEW id \in Ids PROVE \E p \in P : f[p] = id
    OBVIOUS
  <2>1. PICK i \in DOMAIN Rows, s \in 0 .. Samples - 1 : id = Id(i, s)
    BY DEF Ids
  <2>2. <<i, s>> \in P /\ f[<<i, s>>] = id
    BY <2>1
  <2>. QED
    BY <2>2
<1>4. f \in Surjection(P, Ids)
  BY <1>2, <1>3 DEF Surjection
<1>. QED
  BY <1>1, <1>4, FS_Surjection

(* A worker holds a unit or nothing.                                      *)
LEMMA HeldType ==
    ASSUME TypeOK, NEW v \in Workers
    PROVE  Held(v) \in Ids \cup {None}
BY DEF Held, TypeOK, Browse

(* Assign hands out, and leaves pending, only units pending in l.         *)
LEMMA AssignFrom ==
    ASSUME NEW w \in Workers, NEW l \in LedgerType,
           rpl \in [Workers -> Browse \cup {None}],
           Assign(w, l)
    PROVE  /\ \A x \in Ids : work'[x] # None => l[x] # None
           /\ rpl' = [rpl EXCEPT ![w] = rpl'[w]]
           /\ rpl'[w] # None
           /\ rpl'[w].id # None => rpl'[w].id \in Ids /\ l[rpl'[w].id] # None
<1>1. CASE Pending(l) # {}
  <2>1. PICK id \in Pending(l) :
            /\ work' = [l EXCEPT ![id] = None]
            /\ rpl' = [rpl EXCEPT ![w] = [id |-> id, url |-> l[id], len |-> 0]]
    BY <1>1 DEF Assign
  <2>2. id \in Ids /\ l[id] \in URLs
    BY DEF Pending, LedgerType
  <2>3. rpl'[w] \in Browse
    BY <2>1, <2>2 DEF Browse
  <2>4. rpl'[w] # None
    BY <2>3, NoneAssumption
  <2>5. \A x \in Ids : work'[x] # None => l[x] # None
    BY <2>1 DEF LedgerType
  <2>. QED
    BY <2>1, <2>2, <2>4, <2>5 DEF Pending
<1>2. CASE Pending(l) = {}
  <2>1. work' = l /\ rpl' = [rpl EXCEPT ![w] = NoWork]
    BY <1>2 DEF Assign
  <2>2. NoWork \in Browse
    BY DEF NoWork, Browse
  <2>3. NoWork # None
    BY <2>2, NoneAssumption
  <2>. QED
    BY <2>1, <2>3 DEF NoWork
<1>. QED
  BY <1>1, <1>2

(* With distinct row ids and no truncated file left by an earlier run,    *)
(* the loader counts exactly the stored files, and leaves no unit with a  *)
(* stored file in the ledger.                                             *)
LEMMA CountInit ==
    ASSUME UniqueRowIds, PriorFiles \subseteq {"none", "stored"}
    PROVE  Init => StoredNotLive /\ DoneCountsStored
<1> SUFFICES ASSUME Init PROVE StoredNotLive /\ DoneCountsStored
  OBVIOUS
<1>1. disk \in [Ids -> {"none", "stored"}]
  BY DEF Init, CoordInit
<1>2. /\ work = LoadedWork(disk)
      /\ done = LoadedDone(disk)
      /\ \A w \in Workers : Held(w) = None
  BY DEF Init, CoordInit, Held, NoWork
<1>3. StoredNotLive
  BY <1>1, <1>2 DEF LoadedWork, StoredNotLive
<1> DEFINE P == (DOMAIN Rows) \X (0 .. Samples - 1)
           S == {p \in P : disk[Id(p[1], p[2])] # "none"}
           f == [p \in S |-> Id(p[1], p[2])]
<1>4. IsFiniteSet(S)
  <2>1. IsFiniteSet(DOMAIN Rows)
    BY RowsFacts, FS_Interval
  <2>2. IsFiniteSet(0 .. Samples - 1)
    BY SamplesAssumption, FS_Interval
  <2>3. IsFiniteSet(P)
    BY <2>1, <2>2, FS_Product
  <2>. QED
    BY <2>3, FS_Subset
<1>5. f \in [S -> StoredSet]
  BY <1>1 DEF StoredSet, Ids
<1>6. \A p, q \in S : f[p] = f[q] => p = q
  <2> SUFFICES ASSUME NEW p \in S, NEW q \in S, f[p] = f[q] PROVE p = q
    OBVIOUS
  <2>1. Rows[p[1]].id = Rows[q[1]].id /\ p[2] = q[2]
    BY DEF Id
  <2>2. p[1] = q[1]
    BY <2>1 DEF UniqueRowIds
  <2>. QED
    BY <2>1, <2>2
<1>7. \A id \in StoredSet : \E p \in S : f[p] = id
  <2> SUFFICES ASSUME NEW id \in StoredSet PROVE \E p \in S : f[p] = id
    OBVIOUS
  <2>1. PICK i \in DOMAIN Rows, t \in 0 .. Samples - 1 : id = Id(i, t)
    BY DEF StoredSet, Ids
  <2>2. <<i, t>> \in S
    BY <2>1 DEF StoredSet
  <2>. QED
    BY <2>1, <2>2
<1> HIDE DEF P, S, f
<1>8. ExistsBijection(S, StoredSet)
  <2>1. f \in Injection(S, StoredSet)
    BY <1>5, <1>6 DEF Injection, IsInjective
  <2>2. f \in Surjection(S, StoredSet)
    BY <1>5, <1>7 DEF Surjection
  <2>3. f \in Bijection(S, StoredSet)
    BY <2>1, <2>2 DEF Bijection
  <2>. QED
    BY <2>3 DEF ExistsBijection
<1>9. Cardinality(StoredSet) = Cardinality(S)
  BY <1>4, <1>8, FS_Bijection
<1>. QED
  BY <1>2, <1>3, <1>9 DEF DoneCountsStored, LoadedDone, StoredSet, S, P

(* Without lost replies and restarts, and with a positive -m, every step  *)
(* stores only a unit that had no stored file, counting it once, and no   *)
(* step makes a unit with a stored file pending or held again.            *)
LEMMA CountStep ==
    ASSUME MaxLoss = 0, MaxRestart = 0, MinDataLen > 0
    PROVE  /\ TypeOK /\ NoDuplicateWork /\ StoredNotLive /\ DoneCountsStored
           /\ [Next]_vars
           => StoredNotLive' /\ DoneCountsStored'
<1> SUFFICES ASSUME TypeOK, NoDuplicateWork, StoredNotLive, DoneCountsStored, [Next]_vars
             PROVE  StoredNotLive' /\ DoneCountsStored'
  OBVIOUS
<1>0. IsFiniteSet(StoredSet)
  BY IdsFinite, FS_Subset DEF StoredSet
<1>1. ASSUME NEW w \in Workers, Call(w) PROVE StoredNotLive' /\ DoneCountsStored'
  <2> DEFINE in == req[w]
  <2>1. Held(w) = in.id /\ in \in Browse /\ Work(w, in) /\ phase'[w] = "reply" /\ req' = req
    BY <1>1 DEF Call, Held, TypeOK
  <2>2. \A v \in Workers \ {w} : Held(v)' = Held(v)
    BY <1>1, HeldFrame DEF Call, Work, Assign, TypeOK
  <2>3. Held(w)' = IF rpl'[w] # None THEN rpl'[w].id ELSE in.id
    BY <2>1 DEF Held
  <2>4. \A v \in Workers : Held(v) \in Ids \cup {None}
    BY HeldType
  <2>5. CASE in.id = None /\ Assign(w, work) /\ UNCHANGED <<done, disk, writeFails>>
    <3>1. /\ \A x \in Ids : work'[x] # None => work[x] # None
          /\ rpl'[w] # None
          /\ rpl'[w].id # None => rpl'[w].id \in Ids /\ work[rpl'[w].id] # None
      BY <2>5, AssignFrom DEF TypeOK, LedgerType
    <3>2. \A id \in Ids : work'[id] # None => disk'[id] # "stored"
      BY <2>5, <3>1 DEF StoredNotLive
    <3>3. \A v \in Workers : Held(v)' # None => disk'[Held(v)'] # "stored"
      BY <2>2, <2>3, <2>5, <3>1 DEF StoredNotLive
    <3>. QED
      BY <2>5, <3>2, <3>3 DEF StoredNotLive, DoneCountsStored
  <2>6. CASE in.id # None /\ in.len >= MinDataLen /\ StoreOk(in)
               /\ Assign(w, [work EXCEPT ![in.id] = None])
    <3>1. in.id \in Ids /\ disk[in.id] # "stored"
      BY <2>1, <2>6 DEF StoredNotLive, Browse
    <3>2. in.len > 0
      BY <2>1, <2>6, MinDataLenAssumption DEF Browse
    <3>3. disk' = [disk EXCEPT ![in.id] = "stored"] /\ done' = done + 1
      BY <2>6, <3>2 DEF StoreOk
    <3>4. StoredSet' = StoredSet \cup {in.id}
      BY <3>1, <3>3 DEF StoredSet, TypeOK
    <3>5. DoneCountsStored'
      <4>1. Cardinality(StoredSet \cup {in.id}) = Cardinality(StoredSet) + 1
        BY <1>0, <3>1, FS_AddElement DEF StoredSet
      <4>. QED
        BY <3>3, <3>4, <4>1 DEF DoneCountsStored, StoredSet
    <3> DEFINE l == [work EXCEPT ![in.id] = None]
    <3>6. l \in LedgerType /\ Assign(w, l)
      BY <2>6, <3>1 DEF TypeOK, LedgerType
    <3>7. rpl \in [Workers -> Browse \cup {None}]
      BY DEF TypeOK
    <3>8. \A x \in Ids : l[x] # None => x # in.id /\ work[x] # None
      BY <3>1 DEF TypeOK
    <3> HIDE DEF l
    <3>9. /\ \A x \in Ids : work'[x] # None => l[x] # None
          /\ rpl'[w] # None
          /\ rpl'[w].id # None => rpl'[w].id \in Ids /\ l[rpl'[w].id] # None
      BY <3>6, <3>7, AssignFrom
    <3>10. \A x \in Ids : x # in.id => disk'[x] = disk[x]
      BY <3>3 DEF TypeOK
    <3>11. \A id \in Ids : work'[id] # None => disk'[id] # "stored"
      BY <3>8, <3>9, <3>10 DEF StoredNotLive
    <3>12. Held(w)' # None => disk'[Held(w)'] # "stored"
      BY <2>3, <3>8, <3>9, <3>10 DEF StoredNotLive
    <3>13. ASSUME NEW v \in Workers \ {w}, Held(v)' # None PROVE disk'[Held(v)'] # "stored"
      <4>1. Held(v) \in Ids /\ Held(v) # in.id /\ disk[Held(v)] # "stored"
        BY <2>1, <2>2, <2>4, <3>13 DEF NoDuplicateWork, StoredNotLive
      <4>. QED
        BY <2>2, <3>10, <4>1
    <3>. QED
      BY <3>5, <3>11, <3>12, <3>13 DEF StoredNotLive
  <2>7. CASE in.id # None /\ in.len >= MinDataLen /\ StoreFail(in)
               /\ rpl' = [rpl EXCEPT ![w] = None] /\ UNCHANGED work
    <3>1. in.id \in Ids /\ disk[in.id] # "stored"
      BY <2>1, <2>7 DEF StoredNotLive, Browse
    <3>2. \A x \in Ids : disk'[x] = "stored" <=> disk[x] = "stored"
      BY <2>7, <3>1 DEF StoreFail, TypeOK
    <3>3. StoredSet' = StoredSet /\ done' = done
      BY <2>7, <3>2 DEF StoredSet, StoreFail
    <3>4. Held(w)' = in.id
      BY <2>3, <2>7 DEF TypeOK
    <3>5. \A v \in Workers : Held(v)' \in Ids \cup {None}
      BY <2>2, <2>4, <3>1, <3>4
    <3>. QED
      BY <2>2, <2>7, <3>1, <3>2, <3>3, <3>4, <3>5 DEF StoredNotLive, DoneCountsStored, StoredSet
  <2>8. CASE in.id # None /\ in.len < MinDataLen
               /\ Assign(w, [work EXCEPT ![in.id] = TogglePrefix(in.url)])
               /\ UNCHANGED <<done, disk, writeFails>>
    <3>1. in.id \in Ids /\ in.url \in URLs /\ disk[in.id] # "stored"
      BY <2>1, <2>8 DEF StoredNotLive, Browse
    <3> DEFINE l == [work EXCEPT ![in.id] = TogglePrefix(in.url)]
    <3>2. l \in LedgerType /\ Assign(w, l)
      BY <2>8, <3>1, TogglePrefixType DEF TypeOK, LedgerType
    <3>3. rpl \in [Workers -> Browse \cup {None}]
      BY DEF TypeOK
    <3>4. \A x \in Ids : l[x] # None => x = in.id \/ work[x] # None
      BY DEF TypeOK
    <3> HIDE DEF l
    <3>5. /\ \A x \in Ids : work'[x] # None => l[x] # None
          /\ rpl'[w] # None
          /\ rpl'[w].id # None => rpl'[w].id \in Ids /\ l[rpl'[w].id] # None
      BY <3>2, <3>3, AssignFrom
    <3>. QED
      BY <2>2, <2>3, <2>8, <3>1, <3>4, <3>5 DEF StoredNotLive, DoneCountsStored
  <2>. QED
    BY <2>1, <2>5, <2>6, <2>7, <2>8 DEF Work
<1>2. ASSUME NEW w \in Workers, Receive(w) PROVE StoredNotLive' /\ DoneCountsStored'
  <2>1. \A v \in Workers : Held(v)' = Held(v)
    BY <1>2 DEF Receive, Held, coordVars, TypeOK
  <2>. QED
    BY <1>2, <2>1 DEF Receive, coordVars, StoredNotLive, DoneCountsStored
<1>3. ASSUME NEW w \in Workers, PcapBrowse(w) \/ TorBrowse(w) PROVE StoredNotLive' /\ DoneCountsStored'
  <2>1. \A v \in Workers : Held(v)' = Held(v)
    BY <1>3, BrowseStep DEF Held, coordVars, TypeOK, Browse
  <2>. QED
    BY <1>3, <2>1, BrowseStep DEF coordVars, StoredNotLive, DoneCountsStored
<1>4. ASSUME NEW w \in Workers, LoseReply(w) PROVE FALSE
  BY <1>4 DEF LoseReply, TypeOK
<1>5. ASSUME NEW w \in Workers, WorkerRestart(w) PROVE StoredNotLive' /\ DoneCountsStored'
  <2>1. Held(w)' = None /\ \A v \in Workers \ {w} : Held(v)' = Held(v)
    BY <1>5 DEF WorkerRestart, Held, coordVars, NoWork, TypeOK
  <2>. QED
    BY <1>5, <2>1 DEF WorkerRestart, coordVars, StoredNotLive, DoneCountsStored
<1>6. CASE Progress /\ UNCHANGED <<req, phase, faults, lost>>
  <2>1. \A v \in Workers : Held(v)' = Held(v)
    BY <1>6 DEF Progress, Held
  <2>. QED
    BY <1>6, <2>1 DEF Progress, StoredNotLive, DoneCountsStored
<1>7. CASE ServerRestart
  BY <1>7 DEF ServerRestart, TypeOK
<1>8. CASE Finished \/ UNCHANGED vars
  <2>1. \A v \in Workers : Held(v)' = Held(v)
    BY <1>8 DEF Finished, vars, coordVars, Held
  <2>. QED
    BY <1>8, <2>1 DEF Finished, vars, coordVars, StoredNotLive, DoneCountsStored
<1>. QED
  BY <1>1, <1>2, <1>3, <1>4, <1>5, <1>6, <1>7, <1>8 DEF Next

(* Under a reliable transport without server restarts, with distinct row *)
(* ids, no truncated file from an earlier run and a positive -m, the      *)
(* completed counter always equals the number of stored result files:     *)
(* the loader's count, store's done++ and the early return on a failed    *)
(* write count every stored result exactly once.                          *)
THEOREM DoneCountsStoredReliable ==
    ASSUME MaxLoss = 0, MaxRestart = 0, MinDataLen > 0,
           UniqueRowIds, PriorFiles \subseteq {"none", "stored"}
    PROVE  Spec => []DoneCountsStored
<1> DEFINE IInv == TypeOK /\ NoDuplicateWork /\ StoredNotLive /\ DoneCountsStored
<1>1. Init => IInv
  BY TypeInit, NoDupInit, CountInit
<1>2. IInv /\ [Next]_vars => IInv'
  BY TypeStep, NoDupStep, CountStep
<1>. QED
  BY <1>1, <1>2, PTL DEF Spec

(* With distinct row ids there are exactly total units: the progress      *)
(* goroutine's len(pages) * samples counts the units.                     *)
LEMMA IdsCount ==
    ASSUME UniqueRowIds
    PROVE  Cardinality(Ids) = total
<1> DEFINE P == (DOMAIN Rows) \X (0 .. Samples - 1)
           g == [p \in P |-> Id(p[1], p[2])]
<1>1. IsFiniteSet(P) /\ Cardinality(P) = Len(Rows) * Samples
  <2>1. IsFiniteSet(DOMAIN Rows) /\ Cardinality(DOMAIN Rows) = Len(Rows)
    BY RowsFacts, FS_Interval
  <2>2. IsFiniteSet(0 .. Samples - 1) /\ Cardinality(0 .. Samples - 1) = Samples
    BY SamplesAssumption, FS_Interval
  <2>3. IsFiniteSet(P)
        /\ Cardinality(P) = Cardinality(DOMAIN Rows) * Cardinality(0 .. Samples - 1)
    BY <2>1, <2>2, FS_Product
  <2>. QED
    BY <2>1, <2>2, <2>3
<1>2. g \in [P -> Ids]
  BY DEF Ids
<1>3. \A p, q \in P : g[p] = g[q] => p = q
  <2> SUFFICES ASSUME NEW p \in P, NEW q \in P, g[p] = g[q] PROVE p = q
    OBVIOUS
  <2>1. Rows[p[1]].id = Rows[q[1]].id /\ p[2] = q[2]
    BY DEF Id
  <2>2. p[1] = q[1]
    BY <2>1 DEF UniqueRowIds
  <2>. QED
    BY <2>1, <2>2
<1>4. \A id \in Ids : \E p \in P : g[p] = id
  <2> SUFFICES ASSUME NEW id \in Ids PROVE \E p \in P : g[p] = id
    OBVIOUS
  <2>1. PICK i \in DOMAIN Rows, t \in 0 .. Samples - 1 : id = Id(i, t)
    BY DEF Ids
  <2>2. <<i, t>> \in P /\ g[<<i, t>>] = id
    BY <2>1
  <2>. QED
    BY <2>2
<1> HIDE DEF P, g
<1>5. ExistsBijection(P, Ids)
  <2>1. g \in Injection(P, Ids)
    BY <1>2, <1>3 DEF Injection, IsInjective
  <2>2. g \in Surjection(P, Ids)
    BY <1>2, <1>4 DEF Surjection
  <2>. QED
    BY <2>1, <2>2 DEF ExistsBijection, Bijection
<1>. QED
  BY <1>1, <1>5, FS_Bijection DEF total

(* The process has exited only with done = total, and done no longer     *)
(* changes: every handler and the loader run only while it is alive.      *)
ExitedAtTotal == exited => done = total

LEMMA ExitedInit == Init => ExitedAtTotal
BY DEF Init, CoordInit, ExitedAtTotal

LEMMA ExitedStep == ExitedAtTotal /\ [Next]_vars => ExitedAtTotal'
<1> SUFFICES ASSUME ExitedAtTotal, [Next]_vars PROVE ExitedAtTotal'
  OBVIOUS
<1>1. ASSUME NEW w \in Workers, Call(w) PROVE ExitedAtTotal'
  BY <1>1 DEF Call, Work, ExitedAtTotal
<1>2. ASSUME NEW w \in Workers,
             Receive(w) \/ PcapBrowse(w) \/ TorBrowse(w) \/ LoseReply(w) \/ WorkerRestart(w)
      PROVE  ExitedAtTotal'
  BY <1>2 DEF Receive, PcapBrowse, TorBrowse, LoseReply, WorkerRestart, coordVars, ExitedAtTotal
<1>3. CASE Progress /\ UNCHANGED <<req, phase, faults, lost>>
  BY <1>3 DEF Progress, ExitedAtTotal
<1>4. CASE ServerRestart
  BY <1>4 DEF ServerRestart, Reload, ExitedAtTotal
<1>5. CASE Finished \/ UNCHANGED vars
  BY <1>5 DEF Finished, vars, coordVars, ExitedAtTotal
<1>. QED
  BY <1>1, <1>2, <1>3, <1>4, <1>5 DEF Next

(* Under the assumptions of DoneCountsStoredReliable, the progress       *)
(* goroutine ends the process only when every unit's result is stored:    *)
(* done == total then means that all units have a stored file.            *)
THEOREM CompletionSoundReliable ==
    ASSUME MaxLoss = 0, MaxRestart = 0, MinDataLen > 0,
           UniqueRowIds, PriorFiles \subseteq {"none", "stored"}
    PROVE  Spec => []CompletionSound
<1> DEFINE IInv == /\ TypeOK /\ NoDuplicateWork /\ StoredNotLive
                   /\ DoneCountsStored /\ ExitedAtTotal
<1>1. Init => IInv
  BY TypeInit, NoDupInit, CountInit, ExitedInit
<1>2. IInv /\ [Next]_vars => IInv'
  BY TypeStep, NoDupStep, CountStep, ExitedStep
<1>3. IInv => CompletionSound
  <2> SUFFICES ASSUME IInv, exited PROVE \A id \in Ids : disk[id] = "stored"
    BY DEF CompletionSound
  <2>1. Cardinality(StoredSet) = Cardinality(Ids)
    BY IdsCount DEF DoneCountsStored, ExitedAtTotal, StoredSet
  <2>2. StoredSet = Ids
    BY <2>1, IdsFinite, FS_Subset DEF StoredSet
  <2>. QED
    BY <2>2 DEF StoredSet
<1>. QED
  BY <1>1, <1>2, <1>3, PTL DEF Spec

(* No step removes a stored file: store only writes "stored", and a      *)
(* failed write only touches the file of the unit the worker holds.       *)
LEMMA StoredStays ==
    ASSUME TypeOK, StoredNotLive, [Next]_vars
    PROVE  \A id \in Ids : disk[id] = "stored" => disk'[id] = "stored"
<1>1. ASSUME NEW w \in Workers, Call(w) PROVE \A id \in Ids : disk[id] = "stored" => disk'[id] = "stored"
  <2> DEFINE in == req[w]
  <2>1. Held(w) = in.id /\ in \in Browse /\ Work(w, in)
    BY <1>1 DEF Call, Held, TypeOK
  <2>2. CASE in.id # None /\ in.len >= MinDataLen /\ StoreOk(in)
    BY <2>2 DEF StoreOk, TypeOK
  <2>3. CASE in.id # None /\ in.len >= MinDataLen /\ StoreFail(in)
    <3>1. in.id \in Ids /\ disk[in.id] # "stored"
      BY <2>1, <2>3 DEF StoredNotLive, Browse
    <3>. QED
      BY <2>3, <3>1 DEF StoreFail, TypeOK
  <2>4. CASE UNCHANGED disk
    BY <2>4
  <2>. QED
    BY <2>1, <2>2, <2>3, <2>4 DEF Work
<1>2. CASE UNCHANGED disk
  BY <1>2
<1>. QED
  BY <1>1, <1>2 DEF Next, Receive, PcapBrowse, TorBrowse, LoseReply, WorkerRestart,
                    Progress, ServerRestart, Reload, Finished, vars, coordVars

(* Under the assumptions of DoneCountsStoredReliable, a stored result is  *)
(* never overwritten by a failed write nor its unit put back in the       *)
(* ledger by a re-queue or handed out again.                              *)
THEOREM CompletedStaysCompletedReliable ==
    ASSUME MaxLoss = 0, MaxRestart = 0, MinDataLen > 0,
           UniqueRowIds, PriorFiles \subseteq {"none", "stored"}
    PROVE  Spec => CompletedStaysCompleted
<1> DEFINE IInv == TypeOK /\ NoDuplicateWork /\ StoredNotLive /\ DoneCountsStored
<1>1. Init => IInv
  BY TypeInit, NoDupInit, CountInit
<1>2. IInv /\ [Next]_vars => IInv'
  BY TypeStep, NoDupStep, CountStep
<1>3. IInv /\ IInv' /\ [Next]_vars
        => [\A id \in Ids : disk[id] = "stored" => disk'[id] = "stored" /\ work'[id] = None]_vars
  <2> SUFFICES ASSUME IInv, IInv', [Next]_vars
               PROVE  \A id \in Ids : disk[id] = "stored" => disk'[id] = "stored" /\ work'[id] = None
    OBVIOUS
  <2>1. \A id \in Ids : disk[id] = "stored" => disk'[id] = "stored"
    BY StoredStays
  <2>. QED
    BY <2>1 DEF StoredNotLive
<1>. QED
  BY <1>1, <1>2, <1>3, PTL DEF Spec, CompletedStaysCompleted
=============================================================================
