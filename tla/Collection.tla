----------------------------- MODULE Collection -----------------------------
(***************************************************************************)
(* The collection system: the server of Coordinator.tla and the worker     *)
(* clients that poll it over gRPC (src/unnamed/part_003, the pcap worker,  *)
(* and the Tor-log worker in src/unnamed/part_002: their main loops are    *)
(* the same).  Each worker has one call outstanding at a time.  The        *)
(* environment may lose a reply after the server handled the call, crash a *)
(* worker (a new process starts with an empty request) and kill and        *)
(* restart the server on the same data directory; each fault is bounded.   *)
(***************************************************************************)
EXTENDS Coordinator

CONSTANTS
    PcapWorkers,   \* processes of the pcap worker (part_003)
    TorWorkers,    \* processes of the Tor-log worker (part_002)
    Attempts,      \* flag -a of both workers
    MaxPackets,    \* bound on the packets captured during one browse
    PacketLen,     \* bytes a captured packet adds to the pcap
    TorLogLengths, \* lengths of Tor Browser logs that gotData accepts
    MaxLoss,       \* bound on replies lost after the server handled the call
    MaxCrash,      \* bound on worker crashes
    MaxRestart     \* bound on server restarts

ASSUME WorkersAssumption == PcapWorkers \cap TorWorkers = {}
ASSUME LengthsAssumption ==
    {Attempts, MaxPackets, PacketLen} \subseteq Nat /\ TorLogLengths \subseteq Nat
ASSUME BoundsAssumption == {MaxLoss, MaxCrash, MaxRestart} \subseteq Nat

Workers == PcapWorkers \cup TorWorkers

(* pcapgo's WriteFileHeader writes a 24-byte pcap file header.           *)
PcapHeaderLen == 24
(* []byte("none"), sent by the Tor-log worker when browsing failed.       *)
NoneLen == 4

(* The capture goroutine's buffer after a sample with k packets: Reset,  *)
(* a file header, then one record per packet its filter keeps.            *)
Captured(k) == PcapHeaderLen + k * PacketLen

(* What the Tor-log worker's browseTB yields: a log that passed gotData,  *)
(* or "none" after every attempt failed; nil when there is no attempt.    *)
TorPayloads == IF Attempts = 0 THEN {0} ELSE TorLogLengths \cup {NoneLen}

VARIABLES
    req,     \* worker -> the Req.Browse it sends on its next call
    phase,   \* worker -> "call" | "reply" (call handled, reply in transit) | "browse"
    faults,  \* [loss, crash, restart] counts of the environment's faults
    lost     \* ids whose only holder was dropped by a fault (history, not code)

vars == <<coordVars, req, phase, faults, lost>>

(* The unit a worker is responsible for: the one it will report, or the   *)
(* one in the reply travelling to it.                                     *)
Held(w) ==
    IF phase[w] = "reply" /\ rpl[w] # None THEN rpl[w].id ELSE req[w].id

-----------------------------------------------------------------------------
Init ==
    /\ CoordInit(Workers)
    /\ req = [w \in Workers |-> NoWork]
    /\ phase = [w \in Workers |-> "call"]
    /\ faults = [loss |-> 0, crash |-> 0, restart |-> 0]
    /\ lost = {}

(* browse, err := client.Work(context.Background(), work): the server     *)
(* handles the call atomically under its lock.                            *)
Call(w) ==
    /\ phase[w] = "call"
    /\ Work(w, req[w])
    /\ phase' = [phase EXCEPT ![w] = "reply"]
    /\ UNCHANGED <<req, faults, lost>>

(* The reply arrives: on error the same request is sent again; on "no     *)
(* work" the worker sleeps and polls with the empty reply; otherwise the  *)
(* reply becomes the next request and the worker browses.                 *)
Receive(w) ==
    /\ phase[w] = "reply"
    /\ \/ /\ rpl[w] = None
          /\ phase' = [phase EXCEPT ![w] = "call"]
          /\ UNCHANGED req
       \/ /\ rpl[w] # None
          /\ req' = [req EXCEPT ![w] = rpl[w]]
          /\ phase' = [phase EXCEPT ![w] = IF rpl[w].id = None THEN "call" ELSE "browse"]
    /\ UNCHANGED <<coordVars, faults, lost>>

(* The pcap worker: sampleChan <- resets the capture buffer to a bare     *)
(* header, browseTB launches the browser up to Attempts times while the   *)
(* capture goroutine appends the packets it sees, and browse.Data is      *)
(* pcapData.Bytes(), however many packets arrived by then, whether        *)
(* browseTB succeeded or not.                                             *)
PcapBrowse(w) ==
    /\ w \in PcapWorkers
    /\ phase[w] = "browse"
    /\ \E k \in 0 .. MaxPackets : req' = [req EXCEPT ![w].len = Captured(k)]
    /\ phase' = [phase EXCEPT ![w] = "call"]
    /\ UNCHANGED <<coordVars, faults, lost>>

(* The Tor-log worker: browseTB returns the first log gotData accepts,   *)
(* or an error after Attempts failed launches, replaced by "none"; with   *)
(* no attempt at all it returns a nil slice and no error.                 *)
TorBrowse(w) ==
    /\ w \in TorWorkers
    /\ phase[w] = "browse"
    /\ \E n \in TorPayloads : req' = [req EXCEPT ![w].len = n]
    /\ phase' = [phase EXCEPT ![w] = "call"]
    /\ UNCHANGED <<coordVars, faults, lost>>

(* The transport fails after the server handled the call: the worker sees *)
(* an error and sends the same request again.                             *)
LoseReply(w) ==
    /\ phase[w] = "reply"
    /\ rpl[w] # None
    /\ faults.loss < MaxLoss
    /\ faults' = [faults EXCEPT !.loss = @ + 1]
    /\ phase' = [phase EXCEPT ![w] = "call"]
    /\ lost' = IF rpl[w].id = None THEN lost ELSE lost \cup {rpl[w].id}
    /\ UNCHANGED <<coordVars, req>>

(* A worker process dies; a new one starts with an empty request.         *)
WorkerRestart(w) ==
    /\ faults.crash < MaxCrash
    /\ faults' = [faults EXCEPT !.crash = @ + 1]
    /\ req' = [req EXCEPT ![w] = NoWork]
    /\ phase' = [phase EXCEPT ![w] = "call"]
    /\ lost' = IF Held(w) = None THEN lost ELSE lost \cup {Held(w)}
    /\ UNCHANGED coordVars

(* The server is killed and started again: replies not yet delivered are *)
(* errors to their workers, and the loader rebuilds the ledger from disk, *)
(* re-creating every unit without a file.                                 *)
ServerRestart ==
    /\ ~exited
    /\ faults.restart < MaxRestart
    /\ faults' = [faults EXCEPT !.restart = @ + 1]
    /\ Reload
    /\ phase' = [w \in Workers |-> IF phase[w] = "reply" THEN "call" ELSE phase[w]]
    /\ lost' = {}
    /\ UNCHANGED req

(* After os.Exit every call fails: nothing changes any more.             *)
Finished ==
    /\ exited
    /\ UNCHANGED vars

Next ==
    \/ \E w \in Workers :
          \/ Call(w)
          \/ Receive(w)
          \/ PcapBrowse(w)
          \/ TorBrowse(w)
          \/ LoseReply(w)
          \/ WorkerRestart(w)
    \/ Progress /\ UNCHANGED <<req, phase, faults, lost>>
    \/ ServerRestart
    \/ Finished

(* Go's map iteration starts at a random position, so a unit pending      *)
(* while workers keep polling is picked with probability one.            *)
Picks(id) == \E w \in Workers : Call(w) /\ rpl'[w] # None /\ rpl'[w].id = id

Fairness ==
    /\ \A w \in Workers : WF_vars(Call(w)) /\ WF_vars(Receive(w))
          /\ WF_vars(PcapBrowse(w)) /\ WF_vars(TorBrowse(w))
    /\ WF_vars(Progress /\ UNCHANGED <<req, phase, faults, lost>>)
    /\ \A id \in Ids : SF_vars(Picks(id))

Spec == Init /\ [][Next]_vars
FairSpec == Spec /\ Fairness

-----------------------------------------------------------------------------
TypeOK ==
    /\ work \in [Ids -> URLs \cup {None}]
    /\ workers \subseteq Workers
    /\ done \in Nat
    /\ disk \in [Ids -> FileStates]
    /\ exited \in BOOLEAN
    /\ writeFails \in 0 .. MaxWriteFail
    /\ rpl \in [Workers -> Browse \cup {None}]
    /\ req \in [Workers -> Browse]
    /\ phase \in [Workers -> {"call", "reply", "browse"}]
    /\ faults \in [loss : 0 .. MaxLoss, crash : 0 .. MaxCrash, restart : 0 .. MaxRestart]
    /\ lost \subseteq Ids

(* At most one place holds a unit: it is never both pending in the ledger *)
(* and handed to a worker, nor handed to two workers (Work's deferred     *)
(* delete, the re-queue of a short result and the worker's resend).       *)
NoDuplicateWork ==
    /\ \A w \in Workers : Held(w) # None => work[Held(w)] = None
    /\ \A v, w \in Workers : v # w /\ Held(v) # None => Held(v) # Held(w)

(* The completed counter equals the number of stored result files: store *)
(* counts each accepted result exactly once.                              *)
DoneCountsStored == done = Cardinality({id \in Ids : disk[id] = "stored"})

(* When the progress goroutine exits, every unit's result is on disk.     *)
CompletionSound == exited => \A id \in Ids : disk[id] = "stored"

(* A stored result is never overwritten by a failed write nor its unit    *)
(* put back in the ledger (Work's store and re-queue branches).           *)
CompletedStaysCompleted ==
    [][\A id \in Ids : disk[id] = "stored" => disk'[id] = "stored" /\ work'[id] = None]_vars

(* Every unit without a stored result is pending, held by a worker, or    *)
(* was dropped by a worker crash or a lost reply since the last start:    *)
(* Work's deferred delete, the re-queue of a short result and the reload  *)
(* of a restarted server lose nothing, when every write succeeds.  With   *)
(* a failed write it does not hold: a truncated file left by a worker     *)
(* that then crashes is skipped by the reload (run truncated_write).      *)
UnitAccounted ==
    \A id \in Ids :
        \/ disk[id] = "stored"
        \/ work[id] # None
        \/ \E w \in Workers : Held(w) = id
        \/ id \in lost

(* Once every unit has a stored result, the progress goroutine ends the  *)
(* process (spec 4.4: it terminates when completedCount reaches           *)
(* sites x samples); its test is done == total, read once a second.       *)
CompletionExits ==
    (\A id \in Ids : disk[id] = "stored") ~> exited

(* The re-queued retry of a short result addresses the other host name   *)
(* variant (spec 8: "example.com" <-> "www.example.com"): no target in   *)
(* the ledger has "www." glued in front of its scheme.                   *)
RetryTargetsWellFormed ==
    \A id \in Ids : work[id] # None => (work[id].lead = 0 \/ ~work[id].scheme)
=============================================================================
