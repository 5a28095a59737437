------------------------------ MODULE SlotPool ------------------------------
(***************************************************************************)
(* What SlotAllocator promises the tokenizer, without words, snapshots or  *)
(* compare-and-swap: a call is granted a slot nobody has, or is refused,   *)
(* and refused only after every slot was busy at some moment of the call   *)
(* (not necessarily the same moment).                                      *)
(***************************************************************************)
CONSTANTS Threads, Slot,
          NoSlot         \* not a slot

VARIABLES
  phase,      \* "idle", "asking" or "using"
  slot,       \* the slot a thread uses, or NoSlot
  lost,       \* slots their user never gave back
  busySeen    \* slots that were busy at some moment of the call in progress

vars == <<phase, slot, lost, busySeen>>

Busy == lost \union {slot[t] : t \in {u \in Threads : phase[u] = "using"}}

Init == /\ phase    = [t \in Threads |-> "idle"]
        /\ slot     = [t \in Threads |-> NoSlot]
        /\ lost     = {}
        /\ busySeen = [t \in Threads |-> {}]

(* Every call still in progress after the step notices what is busy then.  *)
Notice == busySeen' = [t \in Threads |->
                         IF phase'[t] = "asking" THEN busySeen[t] \union Busy'
                                                 ELSE {}]

Ask(t) == /\ phase[t] = "idle"
          /\ phase' = [phase EXCEPT ![t] = "asking"]
          /\ UNCHANGED <<slot, lost>>
          /\ Notice

Grant(t) == /\ phase[t] = "asking"
            /\ \E s \in Slot \ Busy : slot' = [slot EXCEPT ![t] = s]
            /\ phase' = [phase EXCEPT ![t] = "using"]
            /\ UNCHANGED lost
            /\ Notice

Refuse(t) == /\ phase[t] = "asking"
             /\ busySeen[t] = Slot
             /\ phase' = [phase EXCEPT ![t] = "idle"]
             /\ UNCHANGED <<slot, lost>>
             /\ Notice

GiveBack(t) == /\ phase[t] = "using"
               /\ phase' = [phase EXCEPT ![t] = "idle"]
               /\ slot'  = [slot EXCEPT ![t] = NoSlot]
               /\ UNCHANGED lost
               /\ Notice

Lose(t) == /\ phase[t] = "using"
           /\ lost'  = lost \union {slot[t]}
           /\ phase' = [phase EXCEPT ![t] = "idle"]
           /\ slot'  = [slot EXCEPT ![t] = NoSlot]
           /\ Notice

Next == \E t \in Threads :
          Ask(t) \/ Grant(t) \/ Refuse(t) \/ GiveBack(t) \/ Lose(t)

Spec == Init /\ [][Next]_vars
============================================================================
