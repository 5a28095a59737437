--------------------------- MODULE EncodeWorkers ---------------------------
(***************************************************************************)
(* Threads that encode the lines of a file with one shared tokenizer:      *)
(* RunMulti (token/test_token.cpp 93-115), the repository's concurrent     *)
(* client of CoreBPE::encode, composed with SlotAllocator.  Each worker    *)
(* takes the next line with an atomic fetch_add until none is left.  An    *)
(* exception of encode ends the worker (it is kept in its future).         *)
(***************************************************************************)
EXTENDS SlotAllocator

CONSTANT NumLines

ASSUME LinesAssumption == NumLines \in Nat

VARIABLES
  nextIndex,    \* next_index, the shared atomic
  working,      \* the workers whose loop has not ended
  line,         \* the line a worker encodes, or NoLine
  result        \* what became of each line

workerVars == <<nextIndex, working, line, result>>
allVars    == <<vars, workerVars>>

Line   == 0 .. NumLines - 1
NoLine == -1

WorkersInit == /\ Init
               /\ nextIndex = 0
               /\ working = Threads
               /\ line = [t \in Threads |-> NoLine]
               /\ result = [l \in Line |-> "none"]

TakeTwice(t) ==           \* mutant: next_index is read without being advanced
               /\ t \in working
               /\ nextIndex < NumLines
               /\ Call(t)
               /\ line' = [line EXCEPT ![t] = nextIndex]
               /\ \E n \in {nextIndex, nextIndex + 1} : nextIndex' = n
               /\ UNCHANGED <<working, result>>

(* index = next_index.fetch_add(1), and encode(lines[index]) is called.    *)
TakeLine(t) == /\ t \in working
               /\ nextIndex < NumLines
               /\ Call(t)
               /\ line' = [line EXCEPT ![t] = nextIndex]
               /\ nextIndex' = nextIndex + 1
               /\ UNCHANGED <<working, result>>

LeaveEarly(t) ==          \* mutant: the last line counts as past the end
            /\ t \in working
            /\ pc[t] = "idle"
            /\ nextIndex + 1 >= NumLines
            /\ nextIndex' = nextIndex + 1
            /\ working' = working \ {t}
            /\ UNCHANGED <<vars, line, result>>

(* index >= lines.size(): the worker's loop ends.                          *)
Leave(t) == /\ t \in working
            /\ pc[t] = "idle"
            /\ nextIndex >= NumLines
            /\ nextIndex' = nextIndex + 1
            /\ working' = working \ {t}
            /\ UNCHANGED <<vars, line, result>>

Finish(t, how) == /\ result' = [result EXCEPT ![line[t]] = how]
                  /\ line' = [line EXCEPT ![t] = NoLine]
                  /\ UNCHANGED nextIndex

Encoded(t) == Release(t) /\ Finish(t, "tokens") /\ UNCHANGED working
Emptied(t) == Refuse(t) /\ Finish(t, "empty") /\ UNCHANGED working
Failed(t)  == Throw(t) /\ Finish(t, "thrown") /\ working' = working \ {t}

Inside(t) == /\ Load(t) \/ NextWord(t) \/ CasSuccess(t) \/ CasFail(t) \/ Match(t)
             /\ UNCHANGED workerVars

WorkerStep(t) == \/ TakeLine(t) \/ Leave(t) \/ Inside(t)
                 \/ Encoded(t) \/ Emptied(t) \/ Failed(t)

Joined == working = {} /\ UNCHANGED allVars     \* every future is ready

WorkersNext == (\E t \in Threads : WorkerStep(t)) \/ Joined

(* Every worker is a thread the operating system schedules, and a weak     *)
(* compare-exchange does not fail spuriously for ever.                     *)
WorkersSpec == /\ WorkersInit
               /\ [][WorkersNext]_allVars
               /\ \A t \in Threads : WF_allVars(WorkerStep(t))

----------------------------------------------------------------------------
(* Properties *)

(* Every line is taken exactly once: it waits, or one worker has it, or it *)
(* has a result, and what a worker has is not taken again.                 *)
Busy == {t \in Threads : line[t] # NoLine}

LinesAccounted ==
  /\ \A t, u \in Busy : t # u => line[t] # line[u]
  /\ \A l \in Line : result[l] = "none" <=> l >= nextIndex \/ \E t \in Busy : line[t] = l
  /\ \A t \in Threads : t \in Busy <=> pc[t] # "idle"

(* A line comes back empty only when the workers outnumber the slots: a    *)
(* text is never emptied just because allocate looks at one word after the *)
(* other, and a slot lost to an exception is made up for by the worker     *)
(* that the exception ends.                                                *)
EmptiedOnlyWhenScarce ==
  (\E l \in Line : result[l] = "empty") => Cardinality(Threads) > NumSlots

(* When the workers have ended no line is left out, unless every one of    *)
(* them failed.                                                            *)
NothingLeftOut ==
  working = {} => \/ \A l \in Line : result[l] # "none"
                  \/ Cardinality({l \in Line : result[l] = "thrown"}) = Cardinality(Threads)

(* The join returns: threads that retry their compare-exchange cannot keep *)
(* each other from claiming a slot for ever.                               *)
JoinReturns == <>(working = {})
============================================================================
