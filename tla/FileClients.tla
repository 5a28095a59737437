---------------------------- MODULE FileClients ----------------------------
(***************************************************************************)
(* Processes that use the file helpers, the transfers and the service on   *)
(* one file system.  What they do in a behaviour is fixed by its initial   *)
(* state.                                                                  *)
(***************************************************************************)
EXTENDS NetTransfers, SearchService

CONSTANT Mixes   \* of activities and files: [does |-> ..., files |-> ...]

Activities == {"read", "write", "unzip", "lock", "request", "transfer", "serve"}

(* Nothing but the service makes its log directory.                        *)
ASSUME MixesAssumption ==
  /\ Mixes \subseteq [does : SUBSET Activities, files : SUBSET Files]
  /\ \A m \in Mixes : ~({"serve", "unzip"} \subseteq m.does)

VARIABLE mix

vars == <<filesVars, netVars, serviceVars, mix>>

Init == FilesInit /\ NetInit /\ ServiceInit /\ mix \in Mixes

Does(a) == a \in mix.does
(* A process in a transfer does nothing else.                              *)
Busy(p) == p = Caller /\ xfer.pc # "over"

Reads(p)   == Does("read") /\ \E fn \in Readers, f \in mix.files : OpenToRead(p, fn, f)
Writes(p)  == Does("write") /\ \E f \in mix.files, c \in Contents : OpenToWrite(p, f, c)
Unzips(p)  == Does("unzip") /\ \E d \in Dirs : UnzipTests(p, d)
FuncEnds(p) == ~Busy(p) /\ (FuncReturns(p) \/ FuncThrows(p))
Locks(p)   == Does("lock") /\ (LockOpens(p) \/ FlockFails(p) \/ Flock(p) \/ FuncEnds(p))

FileClient(p) ==
  /\ ~Busy(p)
  /\ Reads(p) \/ Writes(p) \/ Unzips(p) \/ Locks(p) \/ FileStep(p)
  /\ UNCHANGED <<netVars, serviceVars, mix>>

Transfers ==
  /\ \/ Does("request") /\ \E fn \in Requests : Request(fn)
     \/ /\ Does("transfer")
        /\ \E fn \in Uploads \union Downloads, f \in mix.files : OpenForTransfer(fn, f)
     \/ TransferStep
  /\ UNCHANGED <<serviceVars, mix>>

Serves == Does("serve") /\ ServiceNext /\ UNCHANGED <<netVars, mix>>

(* kill, at any time.                                                      *)
Writing(p) == (IF call[p].pc = "write" THEN {call[p].path} ELSE {})
              \union (IF p = Caller /\ xfer.file /\ xfer.fn \in Downloads THEN {xfer.path} ELSE {})
Kill(p) ==
  /\ Killed(p, Writing(p))
  /\ IF p = Caller THEN CallerKilled ELSE UNCHANGED netVars
  /\ ServiceKilled(p)
  /\ UNCHANGED mix

Next == (\E p \in Procs : FileClient(p) \/ Kill(p)) \/ Transfers \/ Serves

(* The scheduler runs every process that can run, a helper call that has   *)
(* begun goes on to its end, func ends, and flock serves its waiters.      *)
Fairness == \A p \in Procs : /\ WF_vars(FileStep(p) /\ UNCHANGED <<netVars, serviceVars, mix>>)
                             /\ SF_vars(FuncEnds(p) /\ UNCHANGED <<netVars, serviceVars, mix>>)
                             /\ SF_vars(Flock(p) /\ UNCHANGED <<netVars, serviceVars, mix>>)
Spec     == Init /\ [][Next]_vars
FairSpec == Spec /\ Fairness /\ WF_vars(TransferStep /\ UNCHANGED <<serviceVars, mix>>)

----------------------------------------------------------------------------
(* What a process reads inside lock_file is what a writer wrote there, or  *)
(* the beginning of it when the writer failed or was killed, and never a   *)
(* mixture of two writers or zeros behind a file that was cut (119-161,    *)
(* 176-223, 310-327).                                                      *)
Wholes == Contents \union {Remote}
NoTornRead ==
  \A p \in Procs :
    call[p].pc = "over" /\ call[p].path \in Guarded
    => \E c \in Wholes : IsPrefix(call[p].data, c)

(* A file used inside lock_file is whole after file_write or a download    *)
(* that reports success: whatever an earlier, failed one left in it is     *)
(* gone.  A full disk is the exception, which nothing reports.             *)
WholeAfterSuccess ==
  \A f \in Guarded : fate[f] = "whole" => node[f].data \in Wholes

(* Each call closes what it opens on every way out; only lock_file keeps a *)
(* descriptor, one per call.                                               *)
One(b) == IF b THEN 1 ELSE 0
DescriptorsExplained ==
  \A p \in Procs : fds[p] = kept[p] + One(section[p] # "out") + One(call[p].pc \in Opened)
                              + One(p = Caller /\ xfer.file)

(* Processes that use a file only inside lock_file see no system calls:    *)
(* func runs in one of them at a time, a read gives the content of one     *)
(* moment, and a write takes effect when it is over, or when its process   *)
(* is killed.                                                              *)
Inside       == {p \in Procs : section[p] = "in"}
BeingWritten == {f \in Guarded : \E p \in Procs : f \in Writing(p)}
Settled      == [f \in Guarded |-> IF f \in BeingWritten THEN <<>> ELSE node[f].data]
AsClient(c)  ==
  LET Client(fn, path, ret, data) == [fn |-> fn, path |-> path, ret |-> ret, data |-> data] IN
  CASE c.path \notin Guarded -> Client("none", NoCall.path, 0, <<>>)
    [] c.path \in Guarded /\ c.pc = "over" -> Client("none", c.path, c.ret, c.data)
    [] OTHER -> Client(c.fn, c.path, 0, <<>>)
Clients      == [p \in Procs |-> AsClient(call[p])]

Atomic == INSTANCE AtomicFiles
          WITH NoFile <- NoCall.path, inside <- Inside, content <- Settled,
               unsettled <- BeingWritten, client <- Clients

ImplementsAtomicFiles == Atomic!Spec

(* A call of lock_file does not wait for ever, unless a func has thrown in *)
(* a process that still lives.                                             *)
LockCallReturns ==
  \A p \in Procs : section[p] = "wait" ~> (section[p] # "wait" \/ threw # {})
============================================================================
