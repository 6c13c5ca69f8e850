----------------------------- MODULE Coordinator -----------------------------
(***************************************************************************)
(* The collection server of src/cmd/server/server.go: the work ledger      *)
(* (map work), the worker registry (map workers), the completed counter    *)
(* (done), the result files under the data directory, the loader that      *)
(* seeds the ledger at startup, the Work RPC handler with its store helper *)
(* and the progress goroutine that ends the process.                       *)
(*                                                                         *)
(* Data is abstracted to what the code tells apart:                        *)
(*  - a row id is a model value and a work id "<row>-<s>" the pair <<r,s>>; *)
(*  - a URL string is the record [lead, scheme, www]: lead is the number   *)
(*    of literal "www." in front of the whole string, scheme says the      *)
(*    string carries "scheme://", and www says the host after the scheme   *)
(*    starts with "www." (a schemeless string keeps its www in lead);      *)
(*  - a payload is its length;                                             *)
(*  - a result file is "none", "partial" (a failed, truncated write) or    *)
(*    "stored".                                                            *)
(* Work runs under the global lock for its whole body, so it is one step.  *)
(***************************************************************************)
EXTENDS Naturals, FiniteSets, Sequences

CONSTANTS
    RowIds,        \* the ids in the first column of the pages file
    Rows,          \* the pages file, in order: <<[id |-> row id, url |-> URL], ...>>
    Samples,       \* flag -s
    DefaultScheme, \* TRUE iff flag -scheme is a non-empty scheme
    MinDataLen,    \* flag -m
    PriorFiles,    \* the file states an earlier run may have left in the data dir
    MaxWriteFail,  \* bound on failed result writes
    None           \* the empty string: no ID, no URL, no ledger entry, nil reply

VARIABLES
    work,       \* ledger: id -> URL, or None when the id is not in the map
    workers,    \* registry of worker identities seen since startup
    done,       \* completed counter
    disk,       \* id -> state of <datadir>/<id><suffix>
    exited,     \* the process has called os.Exit(0)
    writeFails, \* number of failed result writes so far
    rpl         \* worker -> reply of the server to its current call (None: error)

coordVars == <<work, workers, done, disk, exited, writeFails, rpl>>

URLs == [lead : {0, 1}, scheme : BOOLEAN, www : BOOLEAN]
FileStates == {"none", "partial", "stored"}

ASSUME RowsAssumption ==
    /\ Rows \in Seq([id : RowIds, url : URLs])
    /\ \A i \in DOMAIN Rows : ~Rows[i].url.scheme => ~Rows[i].url.www
ASSUME SamplesAssumption == Samples \in Nat
ASSUME DefaultSchemeAssumption == DefaultScheme \in BOOLEAN
ASSUME MinDataLenAssumption == MinDataLen \in Nat
ASSUME PriorFilesAssumption == PriorFiles \subseteq FileStates /\ "none" \in PriorFiles
ASSUME MaxWriteFailAssumption == MaxWriteFail \in Nat

(* id := pages[i][0] + "-" + strconv.Itoa(s) *)
Id(i, s) == <<Rows[i].id, s>>
Ids == {Id(i, s) : i \in DOMAIN Rows, s \in 0 .. Samples - 1}

(* total := len(pages) * *samples, counted per row, duplicated ids included *)
total == Len(Rows) * Samples

(* A Browse message: the request's previous result and the reply.  It     *)
(* carries a unit (ID and URL) or none (ID "", no URL).                   *)
Browse == [id : Ids, url : URLs, len : Nat] \cup [id : {None}, url : {None}, len : Nat]
NoWork == [id |-> None, url |-> None, len |-> 0]

(* The empty string is neither a URL, nor a work id, nor a message.       *)
ASSUME NoneAssumption == None \notin URLs \cup (RowIds \X Nat) \cup Browse

(* page.Scheme = *scheme when the parsed page has none; page.String()     *)
Normalize(u) ==
    IF ~u.scheme /\ DefaultScheme
    THEN [lead |-> 0, scheme |-> TRUE, www |-> u.lead = 1]
    ELSE u

(* The last row of the file with row id r.                               *)
LastRow(r) ==
    CHOOSE i \in DOMAIN Rows : Rows[i].id = r /\ \A j \in DOMAIN Rows : j > i => Rows[j].id # r

(* Every row id of a finite file has a last row: a fact about finite      *)
(* sequences that needs induction, which the provers lack; TLC checks it. *)
ASSUME LastRowAssumption ==
    \A i \in DOMAIN Rows :
        \E k \in DOMAIN Rows :
            Rows[k].id = Rows[i].id /\ \A j \in DOMAIN Rows : j > k => Rows[j].id # Rows[i].id

(* work[id] is assigned once per row in file order: the last row wins.    *)
Target(id) == Normalize(Rows[LastRow(id[1])].url)

(* Loader variants: the os.Stat check dropped, and the sample loop       *)
(* stopping one short (s < *samples - 1).                                 *)
LoadedWorkAll(d) == [id \in Ids |-> Target(id)]
LoadedWorkShort(d) ==
    [id \in Ids |-> IF d[id] = "none" /\ id[2] < Samples - 1 THEN Target(id) ELSE None]

(* The ledger and counter the loader builds from the files on disk d.     *)
LoadedWork(d) == [id \in Ids |-> IF d[id] = "none" THEN Target(id) ELSE None]
LoadedDone(d) ==
    Cardinality({p \in (DOMAIN Rows) \X (0 .. Samples - 1) : d[Id(p[1], p[2])] # "none"})

(* Toggle variant: the HasPrefix test dropped, "www." always prepended.    *)
TogglePrefixAdd(u) == [u EXCEPT !.lead = @ + 1]

(* strings.HasPrefix(url, "www.") ? url[4:] : "www." + url               *)
TogglePrefix(u) == [u EXCEPT !.lead = 1 - @]

Pending(l) == {id \in Ids : l[id] # None}

(* Handler variants: the deferred delete missing; work handed out only   *)
(* while more than one unit is pending; done++ before the write error is  *)
(* checked; the exit test one short of total.                             *)
AssignKeep(w, l) ==
    \/ /\ Pending(l) # {}
       /\ \E id \in Pending(l) :
            /\ work' = l
            /\ rpl' = [rpl EXCEPT ![w] = [id |-> id, url |-> l[id], len |-> 0]]
    \/ /\ Pending(l) = {}
       /\ work' = l
       /\ rpl' = [rpl EXCEPT ![w] = NoWork]
AssignGreedy(w, l) ==
    \/ /\ Cardinality(Pending(l)) > 1
       /\ \E id \in Pending(l) :
            /\ work' = [l EXCEPT ![id] = None]
            /\ rpl' = [rpl EXCEPT ![w] = [id |-> id, url |-> l[id], len |-> 0]]
    \/ /\ Cardinality(Pending(l)) <= 1
       /\ work' = l
       /\ rpl' = [rpl EXCEPT ![w] = NoWork]
StoreFailCounted(in) ==
    /\ in.len > 0
    /\ writeFails < MaxWriteFail
    /\ writeFails' = writeFails + 1
    /\ \E f \in {disk[in.id], "partial"} : disk' = [disk EXCEPT ![in.id] = f]
    /\ done' = done + 1
ProgressEarly ==
    /\ ~exited
    /\ done >= total - 1
    /\ exited' = TRUE
    /\ UNCHANGED <<work, workers, done, disk, writeFails, rpl>>

-----------------------------------------------------------------------------
(* Startup: create the registry, read the files, build the ledger.        *)
CoordInit(ws) ==
    /\ disk \in [Ids -> PriorFiles]
    /\ work = LoadedWork(disk)
    /\ done = LoadedDone(disk)
    /\ workers = {}
    /\ exited = FALSE
    /\ writeFails = 0
    /\ rpl = [w \in ws |-> NoWork]

(* "find work": hand out one pending unit of ledger l, deleting it from   *)
(* the map before the lock is released, or reply "no work".               *)
Assign(w, l) ==
    \/ /\ Pending(l) # {}
       /\ \E id \in Pending(l) :
            /\ work' = [l EXCEPT ![id] = None]
            /\ rpl' = [rpl EXCEPT ![w] = [id |-> id, url |-> l[id], len |-> 0]]
    \/ /\ Pending(l) = {}
       /\ work' = l
       /\ rpl' = [rpl EXCEPT ![w] = NoWork]

(* store(): write the file if the payload is non-empty, then done++.      *)
StoreOk(in) ==
    /\ disk' = IF in.len > 0 THEN [disk EXCEPT ![in.id] = "stored"] ELSE disk
    /\ done' = done + 1
    /\ UNCHANGED writeFails

(* ioutil.WriteFile fails: the file is left absent, as it was, or truncated. *)
StoreFail(in) ==
    /\ in.len > 0
    /\ writeFails < MaxWriteFail
    /\ writeFails' = writeFails + 1
    /\ \E f \in {disk[in.id], "partial"} : disk' = [disk EXCEPT ![in.id] = f]
    /\ UNCHANGED done

(* The Work handler for worker w sending request in, under the lock.      *)
Work(w, in) ==
    /\ ~exited
    /\ workers' = workers \cup {w}
    /\ \/ /\ in.id = None
          /\ Assign(w, work)
          /\ UNCHANGED <<done, disk, writeFails>>
       \/ /\ in.id # None
          /\ in.len >= MinDataLen
          /\ StoreOk(in)
          /\ Assign(w, [work EXCEPT ![in.id] = None])
       \/ /\ in.id # None
          /\ in.len >= MinDataLen
          /\ StoreFail(in)
          /\ rpl' = [rpl EXCEPT ![w] = None]
          /\ UNCHANGED work
       \/ /\ in.id # None
          /\ in.len < MinDataLen
          /\ Assign(w, [work EXCEPT ![in.id] = TogglePrefix(in.url)])
          /\ UNCHANGED <<done, disk, writeFails>>
    /\ UNCHANGED exited

(* The progress goroutine: at done == total it calls os.Exit(0).          *)
Progress ==
    /\ ~exited
    /\ done = total
    /\ exited' = TRUE
    /\ UNCHANGED <<work, workers, done, disk, writeFails, rpl>>

(* The process is killed and started again on the same data directory:    *)
(* every in-memory structure is rebuilt by the loader from the files.     *)
Reload ==
    /\ work' = LoadedWork(disk)
    /\ done' = LoadedDone(disk)
    /\ workers' = {}
    /\ UNCHANGED <<disk, exited, writeFails, rpl>>
=============================================================================
