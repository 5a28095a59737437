---------------------------- MODULE AtomicFiles ----------------------------
(***************************************************************************)
(* What lock_file and the file helpers promise to processes that use some  *)
(* files only inside lock_file.  There are no descriptors, blocks and      *)
(* system calls here: func runs in one process at a time, and each call of *)
(* a helper by func takes effect at once.  A read is of the whole content  *)
(* at the moment it returns, and what is being written is seen by nobody   *)
(* before it is as long as it will ever be, also when the writer is        *)
(* killed.  It may be shorter than what was to be written.                 *)
(***************************************************************************)
EXTENDS Integers, Sequences

CONSTANTS Procs, Nobody,
          Guarded,       \* files used only inside lock_file
          Wholes,        \* what is written into them
          NoFile

VARIABLES
  holder,     \* who has the lock
  inside,     \* the processes whose func runs
  content,    \* of each file; of one that is being written, nothing
  unsettled,  \* the files being written
  client      \* a process's call on such a file, or what the last one returned

vars == <<holder, inside, content, unsettled, client>>

Beginnings == UNION {{SubSeq(c, 1, n) : n \in 0 .. Len(c)} : c \in Wholes}
ReadFns == {"size", "read", "read_string", "quick"}

Asks(fn, f)          == [fn |-> fn, path |-> f, ret |-> 0, data |-> <<>>]
Has(f, ret, data)    == [fn |-> "none", path |-> f, ret |-> ret, data |-> data]
Idle                 == Asks("none", NoFile)
Becomes(p, c)        == client' = [client EXCEPT ![p] = c]
At(p)                == client[p].path

Init == /\ holder = Nobody /\ inside = {}
        /\ content = [f \in Guarded |-> <<>>] /\ unsettled = {}
        /\ client = [p \in Procs |-> Idle]

----------------------------------------------------------------------------
(* lock_file.  When func throws, the lock stays with the process.          *)

Enter(p) == /\ holder = Nobody
            /\ holder' = p /\ inside' = inside \union {p}
            /\ UNCHANGED <<content, unsettled, client>>

Leave(p) == /\ p \in inside /\ unsettled = {} /\ client[p].fn = "none"
            /\ holder' \in {holder, Nobody} /\ inside' = inside \ {p}
            /\ UNCHANGED <<content, unsettled, client>>

----------------------------------------------------------------------------
(* Reading *)

Read(p, fn, f) == /\ p \in inside /\ client[p].fn = "none"
                  /\ Becomes(p, Asks(fn, f))
                  /\ UNCHANGED <<holder, inside, content, unsettled>>

ReadReturns(p) == /\ p \in inside /\ client[p].fn \in ReadFns
                  /\ At(p) \notin unsettled
                  /\ Becomes(p, IF client[p].fn = "size" THEN Has(At(p), Len(content[At(p)]), <<>>)
                                                         ELSE Has(At(p), 0, content[At(p)]))
                  /\ UNCHANGED <<holder, inside, content, unsettled>>

(* A call fails at its beginning or later.  (The form of file_read that    *)
(* returns a string has only the empty one to tell so.)                    *)
Fails(p, f) == /\ p \in inside
               /\ \/ client[p].fn = "none"
                  \/ client[p].fn \in ReadFns /\ At(p) = f
               /\ \E ret \in {-1, -2, -3} : Becomes(p, Has(f, ret, <<>>))
               /\ UNCHANGED <<holder, inside, content, unsettled>>

(* Calls on other files, at any time.                                      *)
Elsewhere(p) == /\ client[p].fn = "none"
                /\ Becomes(p, Idle)
                /\ UNCHANGED <<holder, inside, content, unsettled>>

----------------------------------------------------------------------------
(* Writing, by file_write or a download *)

Begin(p, f) == /\ p \in inside /\ client[p].fn = "none"
               /\ unsettled = {}
               /\ unsettled' = {f} /\ content' = [content EXCEPT ![f] = <<>>]
               /\ UNCHANGED <<holder, inside>>

Write(p, f)    == Begin(p, f) /\ Becomes(p, Asks("write", f))
Download(p, f) == Begin(p, f) /\ UNCHANGED client

(* The file is left with some of the blocks.                               *)
End(p, f, blocks) == /\ p \in inside /\ f \in unsettled
                     /\ unsettled' = unsettled \ {f}
                     /\ content' = [content EXCEPT ![f] = blocks]
                     /\ UNCHANGED <<holder, inside>>

(* file_write tells at least as many blocks as there are.                  *)
WriteReturns(p, f) == /\ client[p] = Asks("write", f)
                      /\ \E c \in Wholes : \E told \in 0 .. Len(c) : \E n \in 0 .. told :
                           End(p, f, SubSeq(c, 1, n)) /\ Becomes(p, Has(f, told, <<>>))

DownloadEnds(p, f) == /\ client[p].fn = "none"
                      /\ \E blocks \in Beginnings : End(p, f, blocks)
                      /\ UNCHANGED client

----------------------------------------------------------------------------
(* A killed process gives back the lock, and what it was writing stays.    *)
Settle == /\ unsettled' = {}
          /\ \E left \in [unsettled -> Beginnings] :
               content' = [f \in Guarded |-> IF f \in unsettled THEN left[f] ELSE content[f]]

Die(p) == /\ holder' = IF holder = p THEN Nobody ELSE holder
          /\ inside' = inside \ {p}
          /\ Becomes(p, Idle)
          /\ IF p \in inside THEN Settle ELSE UNCHANGED <<content, unsettled>>

Next == \E p \in Procs :
  \/ Enter(p) \/ Leave(p) \/ ReadReturns(p) \/ Elsewhere(p) \/ Die(p)
  \/ \E f \in Guarded : \/ Write(p, f) \/ WriteReturns(p, f)
                        \/ Download(p, f) \/ DownloadEnds(p, f) \/ Fails(p, f)
                        \/ \E fn \in ReadFns : Read(p, fn, f)

Spec == Init /\ [][Next]_vars
============================================================================
