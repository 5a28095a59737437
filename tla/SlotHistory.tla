---------------------------- MODULE SlotHistory ----------------------------
(***************************************************************************)
(* SlotAllocator with history variables that record, for each call of      *)
(* allocate in progress, what the bitmap showed and how many encodes there *)
(* were at the moments of the call.  They change nothing; the promises of  *)
(* the allocator and the doc comment of core_bpe.h are stated with them.   *)
(***************************************************************************)
EXTENDS SlotAllocator

VARIABLES
  busySeen,    \* slots that were taken at some moment of the call
  firstFree,   \* first free slots (NoSlot: none) at the moments of the call
  crowd        \* the most encodes and lost slots there were at one of them

histVars == <<vars, busySeen, firstFree, crowd>>

Allocating(t) == pc[t] \in {"load", "cas"}

FirstFree == {s \in Slot \ Taken : \A r \in Slot \ Taken : s <= r}
             \union {s \in {NoSlot} : Taken = Slot}

(* The encodes in progress, allocating or not, and the lost slots.         *)
InProgress == {t \in Threads : pc[t] # "idle"}
Pressure   == Cardinality(InProgress) + Cardinality(leaked)

HistInit == /\ Init
            /\ busySeen  = [t \in Threads |-> {}]
            /\ firstFree = [t \in Threads |-> {}]
            /\ crowd     = [t \in Threads |-> 0]

Observe ==
  /\ busySeen'  = [t \in Threads |-> IF Allocating(t)' THEN busySeen[t] \union Taken'
                                                       ELSE {}]
  /\ firstFree' = [t \in Threads |-> IF Allocating(t)' THEN firstFree[t] \union FirstFree'
                                                       ELSE {}]
  /\ crowd'     = [t \in Threads |-> IF ~Allocating(t)' THEN 0
                                     ELSE IF Pressure' > crowd[t] THEN Pressure'
                                     ELSE crowd[t]]

HistNext == Next /\ Observe

HistSpec == HistInit /\ [][HistNext]_histVars

----------------------------------------------------------------------------
(* The refinement mapping.                                                 *)
phaseBar == [t \in Threads |-> IF Allocating(t) THEN "asking"
                               ELSE IF pc[t] = "encode" THEN "using" ELSE "idle"]

Pool == INSTANCE SlotPool WITH phase <- phaseBar, lost <- leaked

(* The allocator implements the pool: exclusive slots, and -1 only when    *)
(* each slot was taken at some moment of the call.                         *)
ImplementsPool == Pool!Spec

(* An encode is refused only if at one moment of its call there were more  *)
(* encodes in progress and lost slots than there are slots, although       *)
(* allocate looks at the words one after the other while others claim and  *)
(* release: callers that come and go behind the search cannot refuse it    *)
(* together, if no moment is crowded.  (Load reads the current word;       *)
(* SlotRelaxed has what is left of this when it need not.)                 *)
RefusedOnlyWhenCrowded == [][\A t \in Threads : Refused(t) => crowd[t] > NumSlots]_histVars

(* core_bpe.h 29: "returns the first free slot, -1 on failure", read as a  *)
(* concurrent object is: at some moment of the call the result was right.  *)
FirstFreeAsDocumented ==
  [][\A t \in Threads : /\ Allocating(t)
                        /\ ~Allocating(t)'
                        => slot'[t] \in firstFree[t]]_histVars
============================================================================
