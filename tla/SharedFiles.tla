---------------------------- MODULE SharedFiles ----------------------------
(***************************************************************************)
(* The file helpers of common/file_utils.cpp, called by several processes  *)
(* on the same files: file_size, the forms of file_read, file_read_quick,  *)
(* file_write, unzip and lock_file.  Each system call is a step of its     *)
(* own; a process may be killed between any two of them.                   *)
(*                                                                         *)
(* A file is a sequence of blocks; NUL is the block the kernel or memset   *)
(* fills in.  flock is external: it belongs to the description that open   *)
(* returns, and the kernel gives it back when the process ends.            *)
(***************************************************************************)
EXTENDS Integers, SequencesExt

CONSTANTS Procs,
          Files,        \* paths of regular files
          Guarded,      \* those the processes use only inside lock_file
          Dirs,         \* paths of directories
          Contents,     \* what file_write is asked to write
          MaxFds,       \* descriptors a process may have open
          Nobody

NUL == 0

ASSUME FilesAssumption == /\ Guarded \subseteq Files /\ Files \intersect Dirs = {}
                          /\ Contents \subseteq Seq(Nat \ {NUL})
                          /\ MaxFds \in Nat /\ Nobody \notin Procs

VARIABLES
  node,      \* what each path is: absent, a file with its blocks, a directory
  call,      \* per process, its call of a helper, or what the last one returned
  section,   \* of lock_file: "out", "wait" for flock, "in" func
  holder,    \* whose description has the lock
  fds,       \* descriptors each process has open
  kept,      \* descriptors of lock_file calls that are over
  threw,     \* processes in which a func has thrown
  fate       \* how the last writing of each file ended

filesVars == <<node, call, section, holder, fds, kept, threw, fate>>

Absent     == [kind |-> "absent", data |-> <<>>]
File(data) == [kind |-> "file", data |-> data]
Directory  == [kind |-> "dir", data |-> <<>>]

NoCall == [fn |-> "none", path |-> CHOOSE f \in Files : TRUE, pc |-> "over",
           size |-> 0, data |-> <<>>, ret |-> 0]
Readers == {"size", "read", "read_string", "quick"}

FilesInit == /\ node \in [Files \union Dirs -> {Absent}]
             /\ call = [p \in Procs |-> NoCall]
             /\ section = [p \in Procs |-> "out"]
             /\ holder = Nobody
             /\ fds = [p \in Procs |-> 0] /\ kept = [p \in Procs |-> 0]
             /\ threw = {} /\ fate = [f \in Files |-> "absent"]

Data(p)  == node[call[p].path].data
Free(p)  == call[p].pc = "over" /\ section[p] # "wait"
Opened   == {"measure", "read", "write"}

----------------------------------------------------------------------------
(* Calls *)

Return(p, ret, data) ==
  call' = [call EXCEPT ![p] = [NoCall EXCEPT !.path = call[p].path, !.ret = ret, !.data = data]]
Close(p) == fds' = [fds EXCEPT ![p] = @ - 1]

MayUse(p, f)   == f \in Guarded => section[p] = "in"
CanOpen(p)     == fds[p] < MaxFds
NewCall(fn, f) == [NoCall EXCEPT !.fn = fn, !.path = f]

(* fopen or open for reading.                                              *)
OpenToRead(p, fn, f) ==
  /\ Free(p) /\ MayUse(p, f)
  /\ IF CanOpen(p) /\ node[f].kind = "file"
     THEN /\ call' = [call EXCEPT ![p] = [NewCall(fn, f) EXCEPT !.pc = "measure"]]
          /\ fds' = [fds EXCEPT ![p] = @ + 1]
     ELSE /\ call' = [call EXCEPT ![p] = [NoCall EXCEPT !.path = f, !.ret = -1]]
          /\ fds' = fds
  /\ UNCHANGED <<node, section, holder, kept, threw, fate>>

(* fseek and ftell, or fstat and mmap; mmap refuses an empty file.         *)
Measure(p) ==
  /\ call[p].pc = "measure"
  /\ LET n == Len(Data(p)) IN
     CASE call[p].fn = "size" -> Return(p, n, <<>>) /\ Close(p)
       [] call[p].fn = "quick" /\ n = 0 -> Return(p, -3, <<>>) /\ Close(p)
       [] OTHER -> /\ call' = [call EXCEPT ![p].pc = "read", ![p].size = n]
                   /\ fds' = fds
  /\ UNCHANGED <<node, section, holder, kept, threw, fate>>

(* No memory for the buffer; fstat or mmap fails.                          *)
MeasureKeepsOpen(p) ==                \* mutant: the early return forgets fclose
  /\ call[p].pc = "measure" /\ call[p].fn # "size"
  /\ \E ret \in IF call[p].fn = "quick" THEN {-2, -3} ELSE {-1} : Return(p, ret, <<>>)
  /\ UNCHANGED <<node, section, holder, fds, kept, threw, fate>>

MeasureFails(p) ==
  /\ call[p].pc = "measure" /\ call[p].fn # "size"
  /\ \E ret \in IF call[p].fn = "quick" THEN {-2, -3} ELSE {-1} : Return(p, ret, <<>>)
  /\ Close(p)
  /\ UNCHANGED <<node, section, holder, kept, threw, fate>>

(* The blocks as they are when they are read.  If the file has become      *)
(* shorter, fread stops and leaves the zeros of memset; the mapping of     *)
(* file_read_quick shows the zeros of its last page.                       *)
Padded(data, n) == [k \in 1 .. n |-> IF k <= Len(data) THEN data[k] ELSE NUL]
ReadBlock(p) ==
  /\ call[p].pc = "read" /\ Len(call[p].data) < call[p].size
  /\ LET k == Len(call[p].data) + 1 IN
     call' = [call EXCEPT ![p].data =
                IF k <= Len(Data(p)) THEN Append(@, Data(p)[k])
                ELSE IF call[p].fn = "quick" THEN Append(@, NUL)
                ELSE Padded(@, call[p].size)]
  /\ UNCHANGED <<node, section, holder, fds, kept, threw, fate>>

(* std::string str = buf ends at the first NUL.                            *)
AsString(data) == SelectInSeq(data, LAMBDA b : b = NUL)
ReadReturns(p) ==
  /\ call[p].pc = "read" /\ Len(call[p].data) = call[p].size
  /\ LET data == call[p].data
         cut  == AsString(data) IN
     Return(p, 0, IF call[p].fn = "read_string" /\ cut > 0 THEN SubSeq(data, 1, cut - 1) ELSE data)
  /\ Close(p)
  /\ UNCHANGED <<node, section, holder, kept, threw, fate>>

(* fopen "wb" creates the file or cuts it to nothing.                      *)
OpenKeeps(p, f, content) ==           \* mutant: opened without cutting the file
  /\ Free(p) /\ MayUse(p, f) /\ CanOpen(p)
  /\ node' = [node EXCEPT ![f].kind = "file"] /\ fate' = [fate EXCEPT ![f] = "open"]
  /\ call' = [call EXCEPT ![p] = [NewCall("write", f) EXCEPT !.pc = "write", !.data = content]]
  /\ fds' = [fds EXCEPT ![p] = @ + 1]
  /\ UNCHANGED <<section, holder, kept, threw>>

OpenToWrite(p, f, content) ==
  /\ Free(p) /\ MayUse(p, f)
  /\ IF CanOpen(p)
     THEN /\ node' = [node EXCEPT ![f] = File(<<>>)] /\ fate' = [fate EXCEPT ![f] = "open"]
          /\ call' = [call EXCEPT ![p] = [NewCall("write", f) EXCEPT !.pc = "write", !.data = content]]
          /\ fds' = [fds EXCEPT ![p] = @ + 1]
     ELSE /\ call' = [call EXCEPT ![p] = [NoCall EXCEPT !.path = f, !.ret = -1]]
          /\ UNCHANGED <<node, fds, fate>>
  /\ UNCHANGED <<section, holder, kept, threw>>

(* A block goes to the offset of this descriptor, behind zeros if someone  *)
(* has cut the file meanwhile.                                             *)
Written(data, k, b) == [Padded(data, IF k <= Len(data) THEN Len(data) ELSE k) EXCEPT ![k] = b]
WriteBlock(p) ==
  /\ call[p].pc = "write" /\ call[p].size < Len(call[p].data)
  /\ LET k == call[p].size + 1 IN
     /\ node' = [node EXCEPT ![call[p].path].data = Written(@, k, call[p].data[k])]
     /\ call' = [call EXCEPT ![p].size = k]
  /\ UNCHANGED <<section, holder, fds, kept, threw, fate>>

(* fclose.  When the disk is full fwrite returns what it wrote; if it had  *)
(* only filled the buffer, nothing tells that fclose could not write it.   *)
WriteReturns(p) ==
  /\ call[p].pc = "write"
  /\ \E ret \in {call[p].size, Len(call[p].data)} : Return(p, ret, <<>>)
  /\ fate' = [fate EXCEPT ![call[p].path] =
                IF call[p].size = Len(call[p].data) THEN "whole" ELSE "disk full"]
  /\ Close(p)
  /\ UNCHANGED <<node, section, holder, kept, threw>>

(* unzip tests the directory, makes it, and runs the command.              *)
UnzipTests(p, d) ==
  /\ Free(p)
  /\ call' = [call EXCEPT ![p] = [NewCall("unzip", d) EXCEPT
                                    !.pc = IF node[d] = Absent THEN "mkdir" ELSE "extract"]]
  /\ UNCHANGED <<node, section, holder, fds, kept, threw, fate>>
UnzipMakes(p) ==
  /\ call[p].pc = "mkdir"
  /\ IF node[call[p].path] = Absent
     THEN /\ node' = [node EXCEPT ![call[p].path] = Directory]
          /\ call' = [call EXCEPT ![p].pc = "extract"]
     ELSE Return(p, -1, <<>>) /\ node' = node
  /\ UNCHANGED <<section, holder, fds, kept, threw, fate>>
UnzipReturns(p) ==
  /\ call[p].pc = "extract"
  /\ \E ret \in {0, -1} : Return(p, ret, <<>>)
  /\ UNCHANGED <<node, section, holder, fds, kept, threw, fate>>

----------------------------------------------------------------------------
(* lock_file *)

LockOpens(p) ==
  /\ Free(p) /\ section[p] = "out" /\ CanOpen(p)
  /\ section' = [section EXCEPT ![p] = "wait"]
  /\ fds' = [fds EXCEPT ![p] = @ + 1]
  /\ UNCHANGED <<node, call, holder, kept, threw, fate>>

FlockIgnored(p) ==                    \* mutant: func runs although flock has failed
  /\ section[p] = "wait"
  /\ section' = [section EXCEPT ![p] = "in"]
  /\ UNCHANGED <<node, call, holder, fds, kept, threw, fate>>

FlockFails(p) ==
  /\ section[p] = "wait"
  /\ section' = [section EXCEPT ![p] = "out"]
  /\ Close(p)
  /\ UNCHANGED <<node, call, holder, kept, threw, fate>>

FlockShared(p) ==                     \* mutant: LOCK_SH instead of LOCK_EX
  /\ section[p] = "wait"
  /\ holder' = p
  /\ section' = [section EXCEPT ![p] = "in"]
  /\ UNCHANGED <<node, call, fds, kept, threw, fate>>

Flock(p) ==
  /\ section[p] = "wait" /\ holder = Nobody
  /\ holder' = p
  /\ section' = [section EXCEPT ![p] = "in"]
  /\ UNCHANGED <<node, call, fds, kept, threw, fate>>

(* func is over: LOCK_UN, but no close.                                    *)
ReturnWithoutUnlock(p) ==             \* mutant: lock_file returns and leaves it to a close that never comes
  /\ section[p] = "in" /\ call[p].pc = "over"
  /\ section' = [section EXCEPT ![p] = "out"]
  /\ kept' = [kept EXCEPT ![p] = @ + 1]
  /\ UNCHANGED <<node, call, holder, fds, threw, fate>>

FuncReturns(p) ==
  /\ section[p] = "in" /\ call[p].pc = "over"
  /\ holder' = Nobody
  /\ section' = [section EXCEPT ![p] = "out"]
  /\ kept' = [kept EXCEPT ![p] = @ + 1]
  /\ UNCHANGED <<node, call, fds, threw, fate>>

(* func throws: the description stays open, and the lock with it.          *)
FuncThrows(p) ==
  /\ section[p] = "in" /\ call[p].pc = "over"
  /\ section' = [section EXCEPT ![p] = "out"]
  /\ kept' = [kept EXCEPT ![p] = @ + 1]
  /\ threw' = threw \union {p}
  /\ UNCHANGED <<node, call, holder, fds, fate>>

(* A killed process loses what it had open; another takes its place.       *)
Killed(p, cut) ==
  /\ call' = [call EXCEPT ![p] = NoCall]
  /\ section' = [section EXCEPT ![p] = "out"]
  /\ holder' = IF holder = p THEN Nobody ELSE holder
  /\ fds' = [fds EXCEPT ![p] = 0] /\ kept' = [kept EXCEPT ![p] = 0]
  /\ threw' = threw \ {p}
  /\ fate' = [f \in Files |-> IF f \in cut THEN "killed" ELSE fate[f]]
  /\ UNCHANGED node

FileStep(p) ==
  \/ Measure(p) \/ MeasureFails(p) \/ ReadBlock(p) \/ ReadReturns(p)
  \/ WriteBlock(p) \/ WriteReturns(p) \/ UnzipMakes(p) \/ UnzipReturns(p)
============================================================================
