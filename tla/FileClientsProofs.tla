--------------------------- MODULE FileClientsProofs ---------------------------
(***************************************************************************)
(* Processes that share files (FileClients) for any number of processes,   *)
(* files, contents and descriptors, and whatever is killed or fails.       *)
(***************************************************************************)
EXTENDS FileClients, SequenceLemmas

Places == Files \union Dirs \union {NoCall.path}

Node == [kind : {"absent", "file", "dir"}, data : Seq(Nat)]
Call == [fn : Readers \union {"none", "write", "unzip"}, path : Places,
         pc : {"over", "measure", "read", "write", "mkdir", "extract"},
         size : Nat, data : Seq(Nat), ret : Int]
Fate == {"absent", "open", "whole", "disk full", "failed", "killed"}

FilesTyped ==
  /\ node \in [Files \union Dirs -> Node]
  /\ call \in [Procs -> Call]
  /\ section \in [Procs -> {"out", "wait", "in"}]
  /\ holder \in Procs \union {Nobody}
  /\ fds \in [Procs -> Int] /\ kept \in [Procs -> Int]
  /\ fate \in [Files -> Fate]

(* A call of a helper is on a file, one of unzip on a directory.           *)
Placed(c) == /\ c.pc \in Opened => c.path \in Files
             /\ c.pc \in {"mkdir", "extract"} => c.path \in Dirs
             /\ c.pc = "write" => c.fn = "write" /\ c.data \in Contents /\ c.size <= Len(c.data)
             /\ c.pc = "measure" => c.fn \in Readers
             /\ c.pc = "read" => c.fn \in Readers \ {"size"}
             /\ c.pc = "measure" => c.data = <<>>
             /\ c.pc = "read" => Len(c.data) <= c.size
CallsPlaced == \A p \in Procs : Placed(call[p])

Xfer == [fn : Requests \union Uploads \union Downloads \union {"none"},
         pc : {"over", "opened", "options", "perform"}, path : Files \union {NoCall.path},
         file : BOOLEAN, received : Seq(Nat), got : [Keys -> Values \union {0}]]

(* A transfer has its file open from its first to its last step, and its   *)
(* process is in no call of a helper meanwhile.                            *)
TransferSound ==
  /\ xfer \in Xfer
  /\ xfer.file <=> xfer.pc # "over" /\ xfer.fn \notin Requests
  /\ xfer.file => xfer.path \in Files
  /\ xfer.fn = "none" <=> xfer.pc = "over"
  /\ xfer.pc \in {"opened", "options"} => xfer.received = <<>>
  /\ xfer.pc # "over" => call[Caller].pc = "over"

Sound == FilesTyped /\ CallsPlaced /\ TransferSound /\ mix \in Mixes

(* A step is one of a process with its files, of the transfer, of the      *)
(* service, or a kill.                                                     *)
LEMMA Steps ==
  ASSUME Next
  PROVE  \/ \E p \in Procs : /\ ~Busy(p)
                             /\ \/ Reads(p) \/ Writes(p) \/ Unzips(p) \/ FileStep(p)
                                \/ LockOpens(p) \/ FlockFails(p) \/ Flock(p)
                                \/ FuncReturns(p) \/ FuncThrows(p)
                             /\ UNCHANGED <<netVars, serviceVars, mix>>
         \/ \E p \in Procs : Kill(p)
         \/ \E fn \in Requests : Request(fn) /\ UNCHANGED <<serviceVars, mix>>
         \/ \E fn \in Uploads \union Downloads, f \in mix.files :
              OpenForTransfer(fn, f) /\ UNCHANGED <<serviceVars, mix>>
         \/ TransferStep /\ UNCHANGED <<serviceVars, mix>>
         \/ Serves
BY DEF Next, FileClient, Locks, FuncEnds, Transfers

LEMMA InitSound == Init => Sound
<1> SUFFICES ASSUME Init PROVE Sound
  OBVIOUS
<1> USE DEF Init, FilesInit, NetInit
<1>1. FilesTyped
  <2>1. NoCall \in Call
    BY DEF NoCall, Call, Places
  <2>2. Absent \in Node
    BY DEF Absent, Node
  <2> QED BY <2>1, <2>2 DEF FilesTyped, Fate
<1>2. CallsPlaced
  BY DEF CallsPlaced, Placed, NoCall, Opened
<1>3. TransferSound
  BY NetAssumption DEF TransferSound, Xfer, NoTransfer, NoHeaders, NoCall, Requests, Uploads, Downloads
<1> QED BY <1>1, <1>2, <1>3 DEF Sound

(* What a step of process p makes of its call, and of no other.            *)
CallBecomes(p, c) == call' = [call EXCEPT ![p] = c]

LEMMA CallOnly ==
  ASSUME call \in [Procs -> Call], NEW p \in Procs, NEW c, CallBecomes(p, c)
  PROVE  call'[p] = c /\ \A q \in Procs \ {p} : call'[q] = call[q]
BY DEF CallBecomes

LEMMA Returned ==
  ASSUME call \in [Procs -> Call], NEW p \in Procs,
         NEW ret \in Int, NEW data \in Seq(Nat), Return(p, ret, data)
  PROVE  \E c \in Call : /\ CallBecomes(p, c)
                         /\ c.pc = "over" /\ c.path = call[p].path /\ c.data = data
<1> DEFINE c == [NoCall EXCEPT !.path = call[p].path, !.ret = ret, !.data = data]
<1>1. call[p].path \in Places
  BY DEF Call
<1>2. c \in Call
  BY <1>1 DEF Call, NoCall
<1>3. c.pc = "over" /\ c.path = call[p].path /\ c.data = data
  BY DEF NoCall
<1> QED BY <1>2, <1>3 DEF Return, CallBecomes

LEMMA CallsStaySound ==
  ASSUME FilesTyped, CallsPlaced, NEW p \in Procs, NEW c \in Call, Placed(c), CallBecomes(p, c)
  PROVE  (call \in [Procs -> Call])' /\ CallsPlaced'
<1>1. call' \in [Procs -> Call]
  BY DEF FilesTyped, CallBecomes
<1>2. ASSUME NEW q \in Procs PROVE Placed(call'[q])
  BY CallOnly DEF FilesTyped, CallsPlaced
<1> QED BY <1>1, <1>2 DEF CallsPlaced, Placed, Opened

(* What is at a path is typed, in particular where a call is.              *)
LEMMA AtPath ==
  ASSUME FilesTyped, NEW f \in Files \union Dirs
  PROVE  node[f] \in Node /\ node[f].data \in Seq(Nat) /\ Len(node[f].data) \in Nat
BY LenProperties DEF FilesTyped, Node

LEMMA OpenedAtPath ==
  ASSUME FilesTyped, CallsPlaced, NEW p \in Procs, call[p].pc \in Opened
  PROVE  call[p].path \in Files /\ Data(p) \in Seq(Nat) /\ Len(Data(p)) \in Nat
<1>1. call[p].path \in Files
  BY DEF CallsPlaced, Placed
<1> QED BY <1>1, AtPath DEF Data

(* The place of the first NUL, 0 when there is none.                       *)
LEMMA CutPlace ==
  ASSUME NEW data \in Seq(Nat)
  PROVE  AsString(data) \in Nat /\ AsString(data) <= Len(data)
<1> DEFINE I == {i \in 1 .. Len(data) : data[i] = NUL}
<1>1. AsString(data) = IF I # {} THEN Min(I) ELSE 0
  BY DEF AsString, SelectInSeq
<1>2. Len(data) \in Nat /\ I \in SUBSET Nat
  BY LenProperties
<1>3. I # {} => Min(I) \in I
  <2> HIDE DEF I
  <2> QED BY <1>2, LeastOfSet
<1> QED BY <1>1, <1>2, <1>3

LEMMA PaddedSeq ==
  ASSUME NEW data \in Seq(Nat), NEW n \in Nat
  PROVE  /\ Padded(data, n) \in Seq(Nat) /\ Len(Padded(data, n)) = n
         /\ \A k \in 1 .. n : Padded(data, n)[k] = IF k <= Len(data) THEN data[k] ELSE NUL
<1>1. Len(data) \in Nat /\ \A k \in 1 .. Len(data) : data[k] \in Nat
  OBVIOUS
<1>2. Padded(data, n) \in [1 .. n -> Nat]
  BY <1>1 DEF Padded, NUL
<1> QED BY <1>1, <1>2 DEF Padded

LEMMA WrittenSeq ==
  ASSUME NEW data \in Seq(Nat), NEW k \in Nat \ {0}, NEW b \in Nat
  PROVE  /\ Written(data, k, b) \in Seq(Nat)
         /\ Len(Written(data, k, b)) = IF k <= Len(data) THEN Len(data) ELSE k
         /\ \A j \in 1 .. Len(Written(data, k, b)) :
              Written(data, k, b)[j] = IF j = k THEN b ELSE IF j <= Len(data) THEN data[j] ELSE NUL
<1> DEFINE n == IF k <= Len(data) THEN Len(data) ELSE k
<1>1. n \in Nat /\ k \in 1 .. n
  BY LenProperties
<1>2. PICK z \in Seq(Nat) :
        /\ z = Padded(data, n) /\ Len(z) = n
        /\ \A j \in 1 .. n : z[j] = IF j <= Len(data) THEN data[j] ELSE NUL
  <2> HIDE DEF n
  <2> QED BY <1>1, PaddedSeq
<1>3. Written(data, k, b) = [z EXCEPT ![k] = b]
  BY <1>2 DEF Written
<1>4. /\ [z EXCEPT ![k] = b] \in Seq(Nat) /\ Len([z EXCEPT ![k] = b]) = n
      /\ \A j \in 1 .. n : [z EXCEPT ![k] = b][j] = IF j = k THEN b ELSE z[j]
  <2> HIDE DEF n
  <2> QED BY <1>1, <1>2, ExceptSeq
<1> QED BY <1>2, <1>3, <1>4

(* Every step of a helper changes the call of its process and of no other. *)
LEMMA FileStepCalls ==
  ASSUME FilesTyped, CallsPlaced, NEW p \in Procs, FileStep(p)
  PROVE  \E c \in Call : Placed(c) /\ CallBecomes(p, c)
<1> USE FilesAssumption
<1>1. call \in [Procs -> Call] /\ call[p] \in Call /\ Placed(call[p])
  BY DEF FilesTyped, CallsPlaced
<1>2. ASSUME NEW ret \in Int, NEW data \in Seq(Nat), Return(p, ret, data)
      PROVE  \E c \in Call : Placed(c) /\ CallBecomes(p, c)
  <2>1. PICK c \in Call : CallBecomes(p, c) /\ c.pc = "over"
    BY <1>1, <1>2, Returned
  <2> QED BY <2>1 DEF Placed, Opened
<1> HIDE FilesAssumption
<1>0. <<>> \in Seq(Nat) /\ {-1, -2, -3, 0} \subseteq Int
  OBVIOUS
<1>3. CASE Measure(p)
  <2> DEFINE n == Len(Data(p))
  <2>1. n \in Nat
    BY <1>3, OpenedAtPath DEF Measure, Opened
  <2>2. CASE \E ret \in Int : Return(p, ret, <<>>)
    BY <2>2, <1>2, <1>0
  <2>3. CASE call[p].fn # "size" /\ call' = [call EXCEPT ![p].pc = "read", ![p].size = n]
    <3> DEFINE c == [call[p] EXCEPT !.pc = "read", !.size = n]
    <3>1. c \in Call
      BY <1>1, <2>1 DEF Call
    <3>2. Placed(c)
      BY <1>1, <2>1, <2>3, <1>3, EmptySeq DEF Placed, Measure, Opened, Call
    <3>3. CallBecomes(p, c)
      BY <1>1, <2>3 DEF CallBecomes, Call
    <3> QED BY <3>1, <3>2, <3>3
  <2>4. -3 \in Int
    OBVIOUS
  <2> QED BY <1>3, <2>1, <2>2, <2>3, <2>4 DEF Measure
<1>4. CASE MeasureFails(p)
  BY <1>4, <1>2, <1>0 DEF MeasureFails
<1>5. CASE ReadBlock(p)
  <2> DEFINE data == call[p].data
             k == Len(data) + 1
             longer == IF k <= Len(Data(p)) THEN Append(data, Data(p)[k])
                       ELSE IF call[p].fn = "quick" THEN Append(data, NUL)
                       ELSE Padded(data, call[p].size)
             c == [call[p] EXCEPT !.data = longer]
  <2>1. /\ data \in Seq(Nat) /\ k \in Nat /\ call[p].size \in Nat /\ k <= call[p].size
        /\ Data(p) \in Seq(Nat)
    BY <1>5, <1>1, OpenedAtPath, LenProperties DEF ReadBlock, Opened, Call
  <2>2. longer \in Seq(Nat) /\ Len(longer) <= call[p].size
    <3>1. ASSUME NEW x \in Nat
          PROVE  Append(data, x) \in Seq(Nat) /\ Len(Append(data, x)) <= call[p].size
      <4> HIDE DEF data
      <4> QED BY <2>1, AppendProperties
    <3>2. Padded(data, call[p].size) \in Seq(Nat) /\ Len(Padded(data, call[p].size)) <= call[p].size
      <4> HIDE DEF data
      <4>1. ASSUME NEW n \in Nat
            PROVE  Padded(data, n) \in Seq(Nat) /\ Len(Padded(data, n)) <= n
        <5>1. data \in Seq(Nat)
          BY <2>1
        <5>2. Padded(data, n) \in Seq(Nat) /\ Len(Padded(data, n)) = n
          BY <5>1, PaddedSeq, Zenon
        <5> QED BY <5>2
      <4> QED BY <2>1, <4>1
    <3>3. k <= Len(Data(p)) => Data(p)[k] \in Nat
      <4> HIDE DEF k
      <4> QED BY <2>1 DEF k
    <3> QED BY <3>1, <3>2, <3>3 DEF NUL
  <2>3. call' = [call EXCEPT ![p].data = longer]
    BY <1>5 DEF ReadBlock
  <2> HIDE DEF longer
  <2>4. c \in Call
    BY <1>1, <2>2 DEF Call
  <2>5. Placed(c)
    BY <1>1, <1>5, <2>2 DEF Call, Placed, Opened, ReadBlock
  <2>6. CallBecomes(p, c)
    BY <1>1, <2>3 DEF CallBecomes, Call
  <2> QED BY <2>4, <2>5, <2>6
<1>6. CASE ReadReturns(p)
  <2> DEFINE data == call[p].data
             cut == AsString(data)
  <2>1. data \in Seq(Nat)
    BY <1>1 DEF Call
  <2>2. cut \in Nat /\ cut <= Len(data)
    BY <2>1, CutPlace
  <2>3. SubSeq(data, 1, cut - 1) \in Seq(Nat)
    <3> HIDE DEF data, cut
    <3> QED BY <2>1, <2>2, SubSeqProperties
  <2>4. Return(p, 0, data) \/ Return(p, 0, SubSeq(data, 1, cut - 1))
    BY <1>6 DEF ReadReturns
  <2> HIDE DEF data, cut
  <2>5. 0 \in Int
    OBVIOUS
  <2> QED BY <1>2, <2>1, <2>3, <2>4, <2>5
<1>7. CASE WriteBlock(p)
  <2> DEFINE k == call[p].size + 1
             c == [call[p] EXCEPT !.size = k]
  <2>1. c \in Call
    <3>1. k \in Nat
      BY <1>1 DEF Call
    <3> HIDE DEF k
    <3> QED BY <1>1, <3>1 DEF Call
  <2>2. Placed(c)
    BY <1>1, <1>7, LenProperties DEF Call, Placed, Opened, WriteBlock
  <2> QED BY <1>7, <1>1, <2>1, <2>2 DEF WriteBlock, CallBecomes
<1>8. CASE WriteReturns(p)
  <2>1. PICK ret \in {call[p].size, Len(call[p].data)} : Return(p, ret, <<>>)
    BY <1>8 DEF WriteReturns
  <2>2. ret \in Int
    BY <1>1, <2>1, LenProperties DEF Call
  <2> QED BY <1>2, <1>0, <2>1, <2>2
<1>9. CASE UnzipMakes(p)
  <2>1. CASE call' = [call EXCEPT ![p].pc = "extract"]
    <3> DEFINE c == [call[p] EXCEPT !.pc = "extract"]
    <3>1. c \in Call
      BY <1>1 DEF Call
    <3>2. Placed(c)
      BY <1>1, <1>9 DEF Placed, UnzipMakes, Opened, Call
    <3>3. CallBecomes(p, c)
      BY <1>1, <2>1 DEF CallBecomes, Call
    <3> QED BY <3>1, <3>2, <3>3
  <2> QED BY <1>9, <2>1, <1>2, <1>0 DEF UnzipMakes
<1>10. CASE UnzipReturns(p)
  BY <1>10, <1>2, <1>0 DEF UnzipReturns
<1> QED BY <1>3, <1>4, <1>5, <1>6, <1>7, <1>8, <1>9, <1>10 DEF FileStep

(* A step that keeps the types of the files and of the calls keeps Sound   *)
(* when it leaves the transfer alone.                                      *)
LEMMA TransferKept ==
  ASSUME Sound, UNCHANGED <<netVars, mix>>, xfer.pc # "over" => call'[Caller].pc = "over",
         FilesTyped', CallsPlaced'
  PROVE  Sound'
BY DEF Sound, TransferSound, netVars

LEMMA FileStepSound ==
  ASSUME Sound, NEW p \in Procs, ~Busy(p), FileStep(p), UNCHANGED <<netVars, serviceVars, mix>>
  PROVE  Sound'
<1>1. PICK c \in Call : Placed(c) /\ CallBecomes(p, c)
  BY FileStepCalls DEF Sound
<1>2. (call \in [Procs -> Call])' /\ CallsPlaced'
  BY <1>1, CallsStaySound DEF Sound
<1>3. xfer.pc # "over" => call'[Caller].pc = "over"
  <2> SUFFICES ASSUME xfer.pc # "over" PROVE call'[Caller].pc = "over"
    OBVIOUS
  <2>1. p # Caller
    BY DEF Busy
  <2>2. call'[Caller] = call[Caller]
    BY <1>1, <2>1, CallOnly, NetAssumption DEF Sound, FilesTyped
  <2> QED BY <2>2 DEF Sound, TransferSound
<1>4. FilesTyped'
  <2>1. section' = section /\ holder' = holder /\ kept' = kept
    BY DEF FileStep, Measure, MeasureFails, ReadBlock, ReadReturns, WriteBlock, WriteReturns,
           UnzipMakes, UnzipReturns
  <2>2. fds' \in [Procs -> Int]
    <3>1. fds' = fds \/ Close(p)
      BY DEF FileStep, Measure, MeasureFails, ReadBlock, ReadReturns, WriteBlock, WriteReturns,
             UnzipMakes, UnzipReturns
    <3> QED BY <3>1 DEF Close, Sound, FilesTyped
  <2>3. fate' \in [Files -> Fate]
    <3>1. fate' = fate \/ WriteReturns(p)
      BY DEF FileStep, Measure, MeasureFails, ReadBlock, ReadReturns, WriteBlock,
             UnzipMakes, UnzipReturns
    <3>2. ASSUME WriteReturns(p) PROVE fate' \in [Files -> Fate]
      BY <3>2 DEF WriteReturns, Sound, FilesTyped, Fate
    <3> QED BY <3>1, <3>2 DEF Sound, FilesTyped
  <2>4. node' \in [Files \union Dirs -> Node]
    <3>1. node' = node \/ WriteBlock(p) \/ UnzipMakes(p)
      BY DEF FileStep, Measure, MeasureFails, ReadBlock, ReadReturns, WriteReturns, UnzipReturns
    <3>2. ASSUME WriteBlock(p) PROVE node' \in [Files \union Dirs -> Node]
      <4> DEFINE k == call[p].size + 1
                 data == Written(Data(p), k, call[p].data[k])
      <4>1. call[p] \in Call /\ call[p].pc \in Opened /\ k \in Nat \ {0} /\ k <= Len(call[p].data)
        <5>1. call[p] \in Call
          BY DEF Sound, FilesTyped
        <5>2. call[p].size \in Nat /\ Len(call[p].data) \in Nat
          BY <5>1, LenProperties DEF Call
        <5> QED BY <3>2, <5>1, <5>2 DEF WriteBlock, Opened
      <4>2. call[p].data[k] \in Nat
        <5>1. call[p].data \in Seq(Nat)
          BY <4>1 DEF Call
        <5> HIDE DEF k
        <5> QED BY <4>1, <5>1
      <4>3. data \in Seq(Nat)
        <5> HIDE DEF k
        <5> QED BY <4>1, <4>2, OpenedAtPath, WrittenSeq DEF Sound
      <4>4. node' = [node EXCEPT ![call[p].path].data = data]
        BY <3>2 DEF WriteBlock, Data
      <4> HIDE DEF data
      <4> QED BY <4>3, <4>4 DEF Sound, FilesTyped, Node
    <3>3. ASSUME UnzipMakes(p) PROVE node' \in [Files \union Dirs -> Node]
      <4>1. Directory \in Node
        BY DEF Directory, Node
      <4> QED BY <3>3, <4>1 DEF UnzipMakes, Sound, FilesTyped
    <3> QED BY <3>1, <3>2, <3>3 DEF Sound, FilesTyped
  <2> QED BY <1>2, <2>1, <2>2, <2>3, <2>4 DEF FilesTyped, Sound
<1> QED BY <1>2, <1>3, <1>4, TransferKept

LEMMA CallBeginsSound ==
  ASSUME Sound, NEW p \in Procs, ~Busy(p), Reads(p) \/ Writes(p) \/ Unzips(p),
         UNCHANGED <<netVars, serviceVars, mix>>
  PROVE  Sound'
<1> USE FilesAssumption
<1>1. mix.files \subseteq Files /\ NoCall \in Call /\ NoCall.path \in Places
  BY MixesAssumption DEF Sound, NoCall, Call, Places
<1>2. ASSUME NEW c \in Call, Placed(c), CallBecomes(p, c),
             node' \in [Files \union Dirs -> Node], fate' \in [Files -> Fate],
             fds' \in [Procs -> Int], UNCHANGED <<section, holder, kept>>
      PROVE  Sound'
  <2>1. (call \in [Procs -> Call])' /\ CallsPlaced'
    BY <1>2, CallsStaySound DEF Sound
  <2>2. xfer.pc # "over" => call'[Caller].pc = "over"
    <3> SUFFICES ASSUME xfer.pc # "over" PROVE call'[Caller].pc = "over"
      OBVIOUS
    <3>1. p # Caller
      BY DEF Busy
    <3>2. call'[Caller] = call[Caller]
      BY <1>2, <3>1, CallOnly, NetAssumption DEF Sound, FilesTyped
    <3> QED BY <3>2 DEF Sound, TransferSound
  <2>3. FilesTyped'
    BY <1>2, <2>1 DEF FilesTyped, Sound
  <2> QED BY <2>1, <2>2, <2>3, TransferKept
<1>6. ASSUME NEW f \in Files
      PROVE  [NoCall EXCEPT !.path = f, !.ret = -1] \in Call /\ Placed([NoCall EXCEPT !.path = f, !.ret = -1])
  <2>1. ASSUME NEW ret \in Int
        PROVE  /\ [NoCall EXCEPT !.path = f, !.ret = ret] \in Call
               /\ [NoCall EXCEPT !.path = f, !.ret = ret].pc = "over"
    BY <1>1 DEF NoCall, Call, Places
  <2>2. -1 \in Int
    OBVIOUS
  <2> QED BY <2>1, <2>2 DEF Placed, Opened
<1>3. ASSUME NEW fn \in Readers, NEW f \in mix.files, OpenToRead(p, fn, f) PROVE Sound'
  <2> DEFINE c1 == [NewCall(fn, f) EXCEPT !.pc = "measure"]
             c2 == [NoCall EXCEPT !.path = f, !.ret = -1]
  <2>1. c1 \in Call /\ Placed(c1)
    BY <1>1 DEF NewCall, NoCall, Call, Places, Placed, Opened
  <2>2. c2 \in Call /\ Placed(c2)
    BY <1>1, <1>6
  <2>3. fds' \in [Procs -> Int]
    BY <1>3 DEF OpenToRead, Sound, FilesTyped
  <2>4. CallBecomes(p, c1) \/ CallBecomes(p, c2)
    BY <1>3 DEF OpenToRead, CallBecomes
  <2>5. UNCHANGED <<node, section, holder, kept, fate>>
    BY <1>3 DEF OpenToRead
  <2> HIDE DEF c1, c2
  <2> QED BY <1>2, <2>1, <2>2, <2>3, <2>4, <2>5 DEF Sound, FilesTyped
<1>4. ASSUME NEW f \in mix.files, NEW content \in Contents, OpenToWrite(p, f, content) PROVE Sound'
  <2> DEFINE c1 == [NewCall("write", f) EXCEPT !.pc = "write", !.data = content]
             c2 == [NoCall EXCEPT !.path = f, !.ret = -1]
  <2>0. content \in Seq(Nat) /\ 0 <= Len(content)
    BY SeqMonotonic, LenProperties
  <2>1. c1 \in Call /\ Placed(c1)
    BY <1>1, <2>0 DEF NewCall, NoCall, Call, Places, Placed, Opened
  <2>2. c2 \in Call /\ Placed(c2)
    BY <1>1, <1>6
  <2>3. fds' \in [Procs -> Int]
    BY <1>4 DEF OpenToWrite, Sound, FilesTyped
  <2>4. CallBecomes(p, c1) \/ CallBecomes(p, c2)
    BY <1>4 DEF OpenToWrite, CallBecomes
  <2>5. UNCHANGED <<section, holder, kept>>
    BY <1>4 DEF OpenToWrite
  <2>6. fate' \in [Files -> Fate]
    BY <1>4, <1>1 DEF OpenToWrite, Sound, FilesTyped, Fate
  <2>7. node' \in [Files \union Dirs -> Node]
    <3>1. File(<<>>) \in Node
      BY DEF File, Node
    <3> QED BY <1>4, <1>1, <3>1 DEF OpenToWrite, Sound, FilesTyped
  <2> HIDE DEF c1, c2
  <2> QED BY <1>2, <2>1, <2>2, <2>3, <2>4, <2>5, <2>6, <2>7
<1>5. ASSUME NEW d \in Dirs, UnzipTests(p, d) PROVE Sound'
  <2> DEFINE c1 == [NewCall("unzip", d) EXCEPT !.pc = IF node[d] = Absent THEN "mkdir" ELSE "extract"]
  <2>1. c1 \in Call /\ Placed(c1)
    BY <1>1 DEF NewCall, NoCall, Call, Places, Placed, Opened
  <2>2. CallBecomes(p, c1)
    BY <1>5 DEF UnzipTests, CallBecomes
  <2>3. UNCHANGED <<node, section, holder, fds, kept, fate>>
    BY <1>5 DEF UnzipTests
  <2> HIDE DEF c1
  <2> QED BY <1>2, <2>1, <2>2, <2>3 DEF Sound, FilesTyped
<1> QED BY <1>3, <1>4, <1>5 DEF Reads, Writes, Unzips

LEMMA LockSound ==
  ASSUME Sound, NEW p \in Procs, UNCHANGED <<netVars, serviceVars, mix>>,
         LockOpens(p) \/ FlockFails(p) \/ Flock(p) \/ FuncReturns(p) \/ FuncThrows(p)
  PROVE  Sound'
<1>1. UNCHANGED <<node, call, fate>>
  BY DEF LockOpens, FlockFails, Flock, FuncReturns, FuncThrows
<1>2. /\ section' \in [Procs -> {"out", "wait", "in"}]
      /\ holder' \in Procs \union {Nobody}
      /\ fds' \in [Procs -> Int] /\ kept' \in [Procs -> Int]
  BY DEF LockOpens, FlockFails, Flock, FuncReturns, FuncThrows, Close, Sound, FilesTyped
<1>3. FilesTyped' /\ CallsPlaced'
  BY <1>1, <1>2 DEF Sound, FilesTyped, CallsPlaced, Placed, Opened
<1> QED BY <1>1, <1>3, TransferKept DEF Sound, TransferSound

LEMMA KillSound ==
  ASSUME Sound, NEW p \in Procs, Kill(p)
  PROVE  Sound'
<1>1. NoCall \in Call /\ Placed(NoCall) /\ NoCall.pc = "over"
  BY DEF NoCall, Call, Placed, Opened, Places
<1>2. CallBecomes(p, NoCall)
  BY DEF Kill, Killed, CallBecomes
<1>3. (call \in [Procs -> Call])' /\ CallsPlaced'
  BY <1>1, <1>2, CallsStaySound DEF Sound
<1>4. FilesTyped'
  <2>1. UNCHANGED node /\ fate' \in [Files -> Fate]
    BY DEF Kill, Killed, Sound, FilesTyped, Fate
  <2>2. /\ section' \in [Procs -> {"out", "wait", "in"}]
        /\ holder' \in Procs \union {Nobody}
        /\ fds' \in [Procs -> Int] /\ kept' \in [Procs -> Int]
    BY DEF Kill, Killed, Sound, FilesTyped
  <2> QED BY <1>3, <2>1, <2>2 DEF FilesTyped, Sound
<1>5. CASE p = Caller
  <2>1. xfer' = NoTransfer /\ mix' = mix
    BY <1>5 DEF Kill, CallerKilled
  <2>2. TransferSound'
    BY <2>1 DEF TransferSound, NoTransfer, NoCall, NoHeaders, Xfer
  <2> QED BY <1>3, <1>4, <2>1, <2>2 DEF Sound
<1>6. CASE p # Caller
  <2>1. UNCHANGED <<netVars, mix>>
    BY <1>6 DEF Kill
  <2>2. call'[Caller] = call[Caller]
    BY <1>2, <1>6, CallOnly, NetAssumption DEF Sound, FilesTyped
  <2> QED BY <1>3, <1>4, <2>1, <2>2, TransferKept DEF Sound, TransferSound
<1> QED BY <1>5, <1>6

LEMMA ServesSound ==
  ASSUME Sound, Serves
  PROVE  Sound'
<1>1. UNCHANGED <<netVars, mix>> /\ UNCHANGED <<call, section, holder, fds, kept, fate>>
  BY DEF Serves, ServiceNext, Launch, TestLogDir, Mkdirs, MkdirsFails, Start, AskedToQuit, Answer,
         filesVars
<1>2. node' = node \/ node' = [node EXCEPT ![LogDir] = Directory]
  BY DEF Serves, ServiceNext, Launch, TestLogDir, Mkdirs, MkdirsFails, Start, AskedToQuit, Answer,
         filesVars
<1>3. node' \in [Files \union Dirs -> Node]
  <2>1. Directory \in Node
    BY DEF Directory, Node
  <2> QED BY <1>2, <2>1 DEF Sound, FilesTyped
<1>4. FilesTyped' /\ CallsPlaced'
  BY <1>1, <1>3 DEF Sound, FilesTyped, CallsPlaced, Placed, Opened
<1> QED BY <1>1, <1>4, TransferKept DEF Sound, TransferSound

(* A step of the transfer leaves the calls alone, so that the types of the *)
(* files and the transfer itself are what has to be kept.                  *)
LEMMA CallsKept ==
  ASSUME Sound, UNCHANGED <<call, section, holder, kept, mix>>,
         node' \in [Files \union Dirs -> Node], fds' \in [Procs -> Int], fate' \in [Files -> Fate],
         TransferSound'
  PROVE  Sound'
BY DEF Sound, FilesTyped, CallsPlaced, Placed, Opened

LEMMA NoTransferSound ==
  ASSUME xfer' = NoTransfer
  PROVE  TransferSound'
BY DEF TransferSound, NoTransfer, NoCall, NoHeaders, Xfer

LEMMA RequestRecord ==
  ASSUME NEW fn \in Requests, NEW x, x = Transfer(fn, NoCall.path, "options")
  PROVE  /\ x \in Xfer
         /\ x.fn = fn /\ x.pc = "options" /\ x.file = FALSE /\ x.received = <<>>
<1>1. NoTransfer \in Xfer /\ NoTransfer.received = <<>> /\ NoTransfer.file = FALSE
  BY DEF NoTransfer, NoHeaders, Xfer
<1>2. x \in Xfer
  BY <1>1 DEF Transfer, Xfer
<1> QED BY <1>1, <1>2 DEF Transfer, Xfer

OfFile(fn, f) == [Transfer(fn, f, "opened") EXCEPT !.file = TRUE]
LEMMA FileTransferRecord ==
  ASSUME NEW fn \in Uploads \union Downloads, NEW f \in Files
  PROVE  /\ OfFile(fn, f) \in Xfer
         /\ OfFile(fn, f).fn = fn /\ OfFile(fn, f).path = f /\ OfFile(fn, f).pc = "opened"
         /\ OfFile(fn, f).file = TRUE /\ OfFile(fn, f).received = <<>>
<1>1. NoTransfer \in Xfer /\ NoTransfer.received = <<>>
  BY DEF NoTransfer, NoHeaders, Xfer
<1>2. OfFile(fn, f) \in Xfer
  BY <1>1 DEF OfFile, Transfer, Xfer
<1> QED BY <1>1, <1>2 DEF OfFile, Transfer, Xfer

LEMMA TransferBeginsSound ==
  ASSUME Sound, UNCHANGED <<serviceVars, mix>>,
         \/ \E fn \in Requests : Request(fn)
         \/ \E fn \in Uploads \union Downloads, f \in mix.files : OpenForTransfer(fn, f)
  PROVE  Sound'
<1> USE FilesAssumption
<1>0. mix.files \subseteq Files
  BY MixesAssumption DEF Sound
<1>1. ASSUME NEW fn \in Requests, Request(fn) PROVE Sound'
  <2>1. UNCHANGED <<call, section, holder, kept, node, fds, fate>>
    BY <1>1 DEF Request, filesVars
  <2>2. TransferSound'
    <3>2. PICK x : x = Transfer(fn, NoCall.path, "options")
      OBVIOUS
    <3>3. /\ x \in Xfer
          /\ x.fn = fn /\ x.pc = "options" /\ x.file = FALSE /\ x.received = <<>>
      BY <3>2, RequestRecord
    <3>4. fn # "none"
      BY DEF Requests
    <3> QED BY <1>1, <2>1, <3>2, <3>3, <3>4 DEF Request, CallerFree, Free, Sound, TransferSound
  <2> QED BY <2>1, <2>2, CallsKept DEF Sound, FilesTyped
<1>2. ASSUME NEW fn \in Uploads \union Downloads, NEW f \in mix.files, OpenForTransfer(fn, f)
      PROVE  Sound'
  <2>1. UNCHANGED <<call, section, holder, kept>>
    BY <1>2 DEF OpenForTransfer
  <2>2. TransferSound'
    <3>1. /\ OfFile(fn, f) \in Xfer
          /\ OfFile(fn, f).fn = fn /\ OfFile(fn, f).path = f /\ OfFile(fn, f).pc = "opened"
          /\ OfFile(fn, f).file = TRUE /\ OfFile(fn, f).received = <<>>
      BY <1>0, FileTransferRecord, ZenonT(60)
    <3>2. xfer' = OfFile(fn, f) /\ CallerFree
      BY <1>2 DEF OpenForTransfer, OfFile
    <3>3. fn # "none" /\ fn \notin Requests
      BY DEF Requests, Uploads, Downloads
    <3> QED BY <1>0, <2>1, <3>1, <3>2, <3>3 DEF CallerFree, Free, TransferSound
  <2>3. fds' \in [Procs -> Int]
    BY <1>2, NetAssumption DEF OpenForTransfer, Sound, FilesTyped
  <2>4. fate' \in [Files -> Fate]
    BY <1>2, <1>0 DEF OpenForTransfer, Sound, FilesTyped, Fate
  <2>5. node' \in [Files \union Dirs -> Node]
    <3>1. File(<<>>) \in Node
      BY DEF File, Node
    <3> QED BY <1>2, <1>0, <3>1 DEF OpenForTransfer, Sound, FilesTyped
  <2> QED BY <2>1, <2>2, <2>3, <2>4, <2>5, CallsKept
<1> QED BY <1>1, <1>2

(* The file a download writes, and the block it writes next.               *)
LEMMA SourceTyped ==
  ASSUME Sound, xfer.pc = "perform"
  PROVE  Source \in Seq(Nat)
<1>1. CASE xfer.fn \in Uploads
  <2>1. xfer.path \in Files
    BY <1>1 DEF Sound, TransferSound, Uploads, Requests
  <2> QED BY <1>1, <2>1, AtPath DEF Sound, Source
<1>2. CASE xfer.fn \notin Uploads
  BY <1>2, NetAssumption, SeqMonotonic DEF Source
<1> QED BY <1>1, <1>2

LEMMA TransferEndsSound ==
  ASSUME Sound, UNCHANGED <<call, section, holder, kept, mix>>, Leave, xfer.pc # "over",
         node' = node \/ node' \in [Files \union Dirs -> Node],
         fate' = fate \/ (xfer.fn \in Downloads /\ \E x \in Fate : fate' = [fate EXCEPT ![xfer.path] = x])
  PROVE  Sound'
<1>1. fds' \in [Procs -> Int]
  BY NetAssumption DEF Leave, Sound, FilesTyped
<1>2. TransferSound'
  BY NoTransferSound DEF Leave
<1>3. fate' \in [Files -> Fate]
  BY DEF Sound, FilesTyped
<1> QED BY <1>1, <1>2, <1>3, CallsKept DEF Sound, FilesTyped

LEMMA TransferStepSound ==
  ASSUME Sound, TransferStep, UNCHANGED <<serviceVars, mix>>
  PROVE  Sound'
<1> USE FilesAssumption
<1>0. ASSUME NEW ret, Told(ret)
      PROVE  fate' = fate \/ (xfer.fn \in Downloads /\ \E x \in Fate : fate' = [fate EXCEPT ![xfer.path] = x])
  BY <1>0 DEF Told, Fate
<1>1. CASE HandleFails
  <2>1. xfer.pc # "over" /\ Leave /\ Told(-1) /\ UNCHANGED <<node, call, section, holder, kept>>
    BY <1>1 DEF HandleFails
  <2> QED BY <1>0, <2>1, TransferEndsSound
<1>2. CASE OptionsFail
  <2>1. xfer.pc # "over" /\ Leave /\ UNCHANGED <<node, call, section, holder, kept>>
    BY <1>2 DEF OptionsFail
  <2>2. PICK ret : Told(ret)
    BY <1>2 DEF OptionsFail
  <2> QED BY <1>0, <2>1, <2>2, TransferEndsSound
<1>3. ASSUME NEW ret, FileReturns(ret) PROVE Sound'
  <2>1. xfer.pc # "over" /\ Leave /\ Told(ret) /\ UNCHANGED <<node, call, section, holder, kept>>
    BY <1>3 DEF FileReturns
  <2> QED BY <1>0, <2>1, TransferEndsSound
<1>4. ASSUME NEW ret, NEW c, RequestReturns(ret, c) PROVE Sound'
  <2>1. xfer.pc # "over" /\ Leave /\ UNCHANGED <<node, call, section, holder, kept, fate>>
    BY <1>4 DEF RequestReturns
  <2> QED BY <2>1, TransferEndsSound
<1>5. CASE FlushFails
  <2>1. xfer.pc # "over" /\ Leave /\ UNCHANGED <<call, section, holder, kept>> /\ xfer.fn \in Downloads
        /\ fate' = [fate EXCEPT ![xfer.path] = "disk full"]
    BY <1>5 DEF FlushFails
  <2>2. xfer.path \in Files
    BY <2>1 DEF Sound, TransferSound, Downloads, Requests
  <2> DEFINE data == node[xfer.path].data
             shorter == SubSeq(data, 1, Len(data) - 1)
  <2>3. shorter \in Seq(Nat)
    <3>1. data \in Seq(Nat) /\ Len(data) - 1 \in Int /\ \A j \in 1 .. Len(data) - 1 : data[j] \in Nat
      BY <2>2, AtPath DEF Sound
    <3> HIDE DEF data
    <3> QED BY <3>1, SubSeqProperties
  <2>4. node' = [node EXCEPT ![xfer.path].data = shorter]
    BY <1>5 DEF FlushFails
  <2> HIDE DEF shorter
  <2>5. node' \in [Files \union Dirs -> Node]
    BY <2>3, <2>4, ZenonT(60) DEF Sound, FilesTyped, Node
  <2>6. "disk full" \in Fate
    BY DEF Fate
  <2> QED BY <2>1, <2>5, <2>6, TransferEndsSound
<1>6. CASE HandleReady \/ OptionsSet \/ \E k \in Keys, v \in Values : Header(k, v)
  <2>1. UNCHANGED <<node, call, section, holder, kept, fds, fate>>
    BY <1>6 DEF HandleReady, OptionsSet, Header, filesVars
  <2>2. TransferSound'
    <3>1. CASE HandleReady \/ OptionsSet
      BY <3>1, <2>1 DEF HandleReady, OptionsSet, Sound, TransferSound, Xfer
    <3>2. ASSUME NEW k \in Keys, NEW v \in Values, Header(k, v) PROVE TransferSound'
      BY <3>2, <2>1 DEF Header, Sound, TransferSound, Xfer
    <3> QED BY <1>6, <3>1, <3>2
  <2> QED BY <2>1, <2>2, CallsKept DEF Sound, FilesTyped
<1>7. CASE Block
  <2> DEFINE k == Len(xfer.received) + 1
             old == node[xfer.path].data
             new == Written(old, k, Source[k])
  <2>0. xfer.pc = "perform" /\ UNCHANGED <<call, section, holder, kept, fds, fate>>
    BY <1>7 DEF Block
  <2>1. xfer.received \in Seq(Nat) /\ k \in Nat \ {0} /\ Source \in Seq(Nat) /\ k <= Len(Source)
    BY <1>7, <2>0, SourceTyped, LenProperties DEF Block, Sound, TransferSound, Xfer
  <2>2. Source[k] \in Nat
    <3> HIDE DEF k
    <3> QED BY <2>1
  <2>3. xfer' = [xfer EXCEPT !.received = Append(@, Source[k])]
    BY <1>7 DEF Block
  <2>4. Append(xfer.received, Source[k]) \in Seq(Nat)
    <3> HIDE DEF k
    <3> QED BY <2>1, <2>2, AppendProperties
  <2>5. TransferSound'
    <3> HIDE DEF k
    <3> QED BY <2>0, <2>3, <2>4 DEF Sound, TransferSound, Xfer
  <2>6. node' \in [Files \union Dirs -> Node]
    <3>1. CASE xfer.fn \in Downloads
      <4>1. xfer.path \in Files
        BY <2>0, <3>1 DEF Sound, TransferSound, Downloads, Requests
      <4>2. new \in Seq(Nat)
        <5>1. old \in Seq(Nat)
          BY <4>1, AtPath DEF Sound
        <5> HIDE DEF k, old
        <5> QED BY <2>1, <2>2, <5>1, WrittenSeq
      <4>3. node' = [node EXCEPT ![xfer.path].data = new]
        BY <1>7, <3>1 DEF Block
      <4> HIDE DEF new
      <4> QED BY <4>2, <4>3, ZenonT(60) DEF Sound, FilesTyped, Node
    <3>2. CASE xfer.fn \notin Downloads
      BY <1>7, <3>2 DEF Block, Sound, FilesTyped
    <3> QED BY <3>1, <3>2
  <2> QED BY <2>0, <2>5, <2>6, CallsKept DEF Sound, FilesTyped
<1> QED BY <1>1, <1>2, <1>3, <1>4, <1>5, <1>6, <1>7 DEF TransferStep

LEMMA NextSound == Sound /\ [Next]_vars => Sound'
<1> SUFFICES ASSUME Sound, [Next]_vars PROVE Sound'
  OBVIOUS
<1>1. CASE Next
  BY <1>1, Steps, CallBeginsSound, FileStepSound, LockSound, KillSound, TransferBeginsSound,
     TransferStepSound, ServesSound
<1>2. CASE UNCHANGED vars
  BY <1>2 DEF vars, filesVars, netVars, Sound, FilesTyped, CallsPlaced, Placed, Opened, TransferSound
<1> QED BY <1>1, <1>2

----------------------------------------------------------------------------
(* Descriptors *)

(* A step of a helper either goes on with its file open, or not open, or   *)
(* closes it.                                                              *)
LEMMA FileStepCloses ==
  ASSUME Sound, NEW p \in Procs, FileStep(p)
  PROVE  /\ UNCHANGED <<section, kept>>
         /\ \A q \in Procs \ {p} : call'[q] = call[q] /\ fds'[q] = fds[q]
         /\ \/ fds'[p] = fds[p] /\ (call'[p].pc \in Opened <=> call[p].pc \in Opened)
            \/ fds'[p] = fds[p] - 1 /\ call[p].pc \in Opened /\ call'[p].pc = "over"
<1>0. call \in [Procs -> Call] /\ call[p] \in Call /\ fds \in [Procs -> Int]
  BY DEF Sound, FilesTyped
<1>1. \A q \in Procs \ {p} : call'[q] = call[q]
  BY <1>0, FileStepCalls, CallOnly DEF Sound
<1>2. ASSUME NEW ret \in Int, NEW data \in Seq(Nat), Return(p, ret, data) PROVE call'[p].pc = "over"
  BY <1>0, <1>2, Returned, CallOnly
<1>3. Close(p) => fds'[p] = fds[p] - 1 /\ \A q \in Procs \ {p} : fds'[q] = fds[q]
  BY <1>0 DEF Close
<1>4. UNCHANGED <<section, kept>>
  BY DEF FileStep, Measure, MeasureFails, ReadBlock, ReadReturns, WriteBlock, WriteReturns,
         UnzipMakes, UnzipReturns
<1>5. ASSUME NEW pc, NEW ret, NEW data, Return(p, ret, data) PROVE call'[p].pc = "over"
  BY <1>0, <1>5 DEF Return, NoCall
<1>6. CASE Measure(p)
  <2>1. \/ Close(p) /\ \E ret, data : Return(p, ret, data)
        \/ fds' = fds /\ call' = [call EXCEPT ![p].pc = "read", ![p].size = Len(Data(p))]
    BY <1>6 DEF Measure
  <2>2. call[p].pc \in Opened /\ "read" \in Opened
    BY <1>6 DEF Measure, Opened
  <2>3. call' = [call EXCEPT ![p].pc = "read", ![p].size = Len(Data(p))] => call'[p].pc = "read"
    BY <1>0 DEF Call
  <2> QED BY <1>1, <1>3, <1>4, <1>5, <2>1, <2>2, <2>3
<1>7. CASE MeasureFails(p) \/ ReadReturns(p) \/ WriteReturns(p)
  <2>1. Close(p) /\ (\E ret, data : Return(p, ret, data)) /\ call[p].pc \in Opened
    BY <1>7 DEF MeasureFails, ReadReturns, WriteReturns, Opened
  <2> QED BY <1>1, <1>3, <1>4, <1>5, <2>1
<1>8. CASE ReadBlock(p) \/ WriteBlock(p)
  <2>1. fds' = fds /\ call'[p].pc = call[p].pc
    BY <1>0, <1>8 DEF ReadBlock, WriteBlock, Call
  <2> QED BY <1>1, <1>4, <2>1
<1>9. CASE UnzipMakes(p) \/ UnzipReturns(p)
  <2>1. fds' = fds /\ call[p].pc \notin Opened
    BY <1>9 DEF UnzipMakes, UnzipReturns, Opened
  <2>2. call'[p].pc \in {"over", "extract"}
    <3>1. (\E ret, data : Return(p, ret, data)) \/ call' = [call EXCEPT ![p].pc = "extract"]
      BY <1>9 DEF UnzipMakes, UnzipReturns
    <3> QED BY <1>0, <1>5, <3>1 DEF Call
  <2> QED BY <1>1, <1>4, <2>1, <2>2 DEF Opened
<1> QED BY <1>6, <1>7, <1>8, <1>9 DEF FileStep

LEMMA NextDescriptors ==
  ASSUME Sound, DescriptorsExplained, [Next]_vars
  PROVE  DescriptorsExplained'
<1> USE DEF DescriptorsExplained, One
<1>0. /\ call \in [Procs -> Call] /\ section \in [Procs -> {"out", "wait", "in"}]
      /\ fds \in [Procs -> Int] /\ kept \in [Procs -> Int] /\ xfer.file \in BOOLEAN
      /\ Caller \in Procs
  BY NetAssumption DEF Sound, FilesTyped, TransferSound, Xfer
<1>1. ASSUME NEW p \in Procs, FileStep(p), UNCHANGED netVars PROVE DescriptorsExplained'
  BY <1>0, <1>1, FileStepCloses DEF netVars, Opened
<1>2. ASSUME NEW p \in Procs, Reads(p) \/ Writes(p) \/ Unzips(p), UNCHANGED netVars
      PROVE  DescriptorsExplained'
  <2>1. UNCHANGED <<section, kept>> /\ call[p].pc = "over"
    BY <1>2 DEF Reads, Writes, Unzips, OpenToRead, OpenToWrite, UnzipTests, Free
  <2>2. \A q \in Procs \ {p} : call'[q] = call[q] /\ fds'[q] = fds[q]
    BY <1>0, <1>2 DEF Reads, Writes, Unzips, OpenToRead, OpenToWrite, UnzipTests
  <2>3. \/ fds'[p] = fds[p] + 1 /\ call'[p].pc \in Opened
        \/ fds'[p] = fds[p] /\ call'[p].pc \notin Opened
    <3>1. ASSUME NEW fn \in Readers, NEW f \in mix.files, OpenToRead(p, fn, f)
          PROVE  \/ fds'[p] = fds[p] + 1 /\ call'[p].pc = "measure"
                 \/ fds'[p] = fds[p] /\ call'[p].pc = "over"
      BY <1>0, <3>1, ZenonT(60) DEF OpenToRead, NewCall, NoCall
    <3>2. ASSUME NEW f \in mix.files, NEW content \in Contents, OpenToWrite(p, f, content)
          PROVE  \/ fds'[p] = fds[p] + 1 /\ call'[p].pc = "write"
                 \/ fds'[p] = fds[p] /\ call'[p].pc = "over"
      BY <1>0, <3>2, ZenonT(60) DEF OpenToWrite, NewCall, NoCall
    <3>3. ASSUME NEW d \in Dirs, UnzipTests(p, d)
          PROVE  fds'[p] = fds[p] /\ call'[p].pc \in {"mkdir", "extract"}
      BY <1>0, <3>3 DEF UnzipTests, NewCall, NoCall
    <3> QED BY <1>2, <3>1, <3>2, <3>3 DEF Reads, Writes, Unzips, Opened
  <2> QED BY <1>0, <1>2, <2>1, <2>2, <2>3 DEF netVars, Opened
<1>3. ASSUME NEW p \in Procs, UNCHANGED netVars,
             LockOpens(p) \/ FlockFails(p) \/ Flock(p) \/ FuncReturns(p) \/ FuncThrows(p)
      PROVE  DescriptorsExplained'
  BY <1>0, <1>3 DEF LockOpens, FlockFails, Flock, FuncReturns, FuncThrows, Close, netVars
<1>4. ASSUME NEW p \in Procs, Kill(p) PROVE DescriptorsExplained'
  <2>1. /\ call'[p].pc = "over" /\ section'[p] = "out" /\ fds'[p] = 0 /\ kept'[p] = 0
        /\ \A q \in Procs \ {p} : /\ call'[q] = call[q] /\ section'[q] = section[q]
                                   /\ fds'[q] = fds[q] /\ kept'[q] = kept[q]
    BY <1>0, <1>4 DEF Kill, Killed, NoCall
  <2>2. p = Caller => ~xfer'.file
    BY <1>4 DEF Kill, CallerKilled, NoTransfer
  <2>3. p # Caller => xfer' = xfer
    BY <1>4 DEF Kill, netVars
  <2> QED BY <1>0, <2>1, <2>2, <2>3 DEF Opened
<1>5. ASSUME NEW fn \in Requests, Request(fn) PROVE DescriptorsExplained'
  <2>1. UNCHANGED <<call, section, fds, kept>> /\ xfer.pc = "over"
    BY <1>5 DEF Request, filesVars, CallerFree
  <2>2. ~xfer.file /\ ~xfer'.file
    BY <1>5, <2>1 DEF Request, Transfer, NoTransfer, Sound, TransferSound
  <2> QED BY <1>0, <2>1, <2>2
<1>6. ASSUME NEW fn, NEW f, OpenForTransfer(fn, f) PROVE DescriptorsExplained'
  <2>1. UNCHANGED <<call, section, kept>> /\ xfer.pc = "over" /\ fds' = [fds EXCEPT ![Caller] = @ + 1]
    BY <1>6 DEF OpenForTransfer, filesVars, CallerFree
  <2>2. ~xfer.file /\ xfer'.file
    BY <1>6, <2>1 DEF OpenForTransfer, Transfer, NoTransfer, Sound, TransferSound
  <2> QED BY <1>0, <2>1, <2>2
<1>7. CASE TransferStep
  <2>1. UNCHANGED <<call, section, kept>>
    BY <1>7 DEF TransferStep, HandleFails, HandleReady, OptionsFail, OptionsSet, Block, FlushFails,
                FileReturns, RequestReturns, Header, filesVars
  <2>2. Leave \/ (fds' = fds /\ (xfer'.file <=> xfer.file))
    BY <1>7 DEF TransferStep, HandleFails, HandleReady, OptionsFail, OptionsSet, Block, FlushFails,
                FileReturns, RequestReturns, Header, filesVars, Sound, TransferSound, Xfer
  <2>3. CASE Leave
    BY <1>0, <2>1, <2>3 DEF Leave, NoTransfer
  <2>4. CASE fds' = fds /\ (xfer'.file <=> xfer.file)
    BY <1>0, <2>1, <2>4
  <2> QED BY <2>2, <2>3, <2>4
<1>8. CASE Serves
  BY <1>0, <1>8 DEF Serves, ServiceNext, Launch, TestLogDir, Mkdirs, MkdirsFails, Start, AskedToQuit,
                    Answer, filesVars, netVars
<1>9. CASE UNCHANGED vars
  BY <1>9 DEF vars, filesVars, netVars
<1> QED BY <1>1, <1>2, <1>3, <1>4, <1>5, <1>6, <1>7, <1>8, <1>9, Steps

----------------------------------------------------------------------------
(* Services *)

(* Only a service makes the log directory while services start up: then    *)
(* all that are about to make it are in overlap.  Before, none can have    *)
(* failed or got past it.                                                  *)
Phase == {"off", "test", "make", "start", "serve", "gone"}
Unzipping(p) == call[p].pc \in {"mkdir", "extract"}
StartUpInv ==
  /\ phase \in [Procs -> Phase]
  /\ error \in [Procs -> {"", "no directory", "unsaid"}]
  /\ \A p \in Procs :
       /\ Unzipping(p) => Does("unzip")
       /\ ~Does("serve") => phase[p] = "off" /\ error[p] # "unsaid"
       /\ node[LogDir] = Absent => error[p] # "unsaid" /\ phase[p] \notin {"start", "serve"}
       /\ node[LogDir] # Absent => (error[p] = "unsaid" \/ phase[p] = "make" => p \in overlap)

LEMMA StartUpOutcomeFollows == StartUpInv => StartUpOutcome
BY DEF StartUpInv, StartUpOutcome

LEMMA InitStartUp == Init => StartUpInv
<1>1. NoCall.pc = "over"
  BY DEF NoCall
<1>2. Init => \A p \in Procs : ~Unzipping(p)
  BY <1>1 DEF Init, FilesInit, Unzipping
<1>3. Init => \A p \in Procs : phase[p] = "off" /\ error[p] = ""
  BY DEF Init, ServiceInit
<1>4. Init => node[LogDir] = Absent
  BY ServiceAssumption DEF Init, FilesInit
<1>5. Init => /\ phase \in [Procs -> Phase]
              /\ error \in [Procs -> {"", "no directory", "unsaid"}]
  BY DEF Init, ServiceInit, Phase
<1> QED BY <1>2, <1>3, <1>4, <1>5 DEF StartUpInv

(* A step of a helper never begins an unzip.                               *)
LEMMA FileStepUnzips ==
  ASSUME Sound, NEW p \in Procs, FileStep(p)
  PROVE  Unzipping(p)' => Unzipping(p)
<1>0. call \in [Procs -> Call] /\ call[p] \in Call
  BY DEF Sound, FilesTyped
<1>1. ASSUME NEW ret, NEW data, Return(p, ret, data) PROVE call'[p].pc = "over"
  BY <1>0, <1>1 DEF Return, NoCall
<1>2. CASE Measure(p)
  <2>1. call' = [call EXCEPT ![p].pc = "read", ![p].size = Len(Data(p))] => call'[p].pc = "read"
    BY <1>0 DEF Call
  <2>2. \/ \E ret, data : Return(p, ret, data)
        \/ call' = [call EXCEPT ![p].pc = "read", ![p].size = Len(Data(p))]
    BY <1>2 DEF Measure
  <2>3. call'[p].pc \in {"over", "read"}
    BY <1>1, <2>1, <2>2
  <2> QED BY <2>3 DEF Unzipping
<1>3. CASE MeasureFails(p) \/ ReadReturns(p) \/ WriteReturns(p)
  <2>1. \E ret, data : Return(p, ret, data)
    BY <1>3 DEF MeasureFails, ReadReturns, WriteReturns
  <2> QED BY <1>1, <2>1 DEF Unzipping
<1>4. CASE ReadBlock(p) \/ WriteBlock(p)
  <2>1. call'[p].pc = call[p].pc
    BY <1>0, <1>4 DEF ReadBlock, WriteBlock, Call
  <2> QED BY <2>1 DEF Unzipping
<1>5. CASE UnzipMakes(p) \/ UnzipReturns(p)
  BY <1>5 DEF UnzipMakes, UnzipReturns, Unzipping
<1> QED BY <1>2, <1>3, <1>4, <1>5 DEF FileStep

LEMMA NextStartUp ==
  ASSUME Sound, StartUpInv, [Next]_vars
  PROVE  StartUpInv'
<1> USE DEF StartUpInv, Does
<1>0. /\ call \in [Procs -> Call] /\ LogDir \in Dirs /\ LogDir \notin Files
      /\ node \in [Files \union Dirs -> Node]
      /\ ~(Does("unzip") /\ Does("serve"))
  BY ServiceAssumption, FilesAssumption, MixesAssumption DEF Sound, FilesTyped
<1>1. ASSUME UNCHANGED <<phase, error, overlap, mix>>, node'[LogDir] = node[LogDir],
             \A p \in Procs : Unzipping(p)' => Unzipping(p) \/ Does("unzip")
      PROVE  StartUpInv'
  BY <1>1
<1>2. ASSUME NEW p \in Procs, FileStep(p), UNCHANGED <<serviceVars, mix>> PROVE StartUpInv'
  <2>1. \A q \in Procs : Unzipping(q)' => Unzipping(q)
    <3>1. \A q \in Procs \ {p} : call'[q] = call[q]
      BY <1>0, <1>2, FileStepCalls, CallOnly DEF Sound
    <3> SUFFICES Unzipping(p)' => Unzipping(p)
      BY <3>1 DEF Unzipping
    <3> QED BY <1>2, FileStepUnzips
  <2>2. CASE UnzipMakes(p)
    <3>1. Does("unzip") /\ ~Does("serve")
      BY <1>0, <2>2 DEF UnzipMakes, Unzipping
    <3>2. \A q \in Procs : phase[q] = "off" /\ error[q] # "unsaid"
      BY <3>1
    <3>3. UNCHANGED <<phase, error, overlap, mix>>
      BY <1>2 DEF serviceVars
    <3> QED BY <2>1, <3>1, <3>2, <3>3
  <2>3. CASE ~UnzipMakes(p)
    <3>1. node' = node \/ WriteBlock(p)
      BY <1>2, <2>3 DEF FileStep, Measure, MeasureFails, ReadBlock, ReadReturns, WriteReturns, UnzipReturns
    <3>2. ASSUME WriteBlock(p) PROVE call[p].path # LogDir
      <4>1. call[p].pc \in Opened
        BY <3>2 DEF WriteBlock, Opened
      <4>2. call[p].path \in Files
        BY <4>1, OpenedAtPath DEF Sound
      <4> QED BY <1>0, <4>2
    <3>3. node'[LogDir] = node[LogDir]
      BY <1>0, <3>1, <3>2 DEF WriteBlock
    <3>4. UNCHANGED <<phase, error, overlap, mix>>
      BY <1>2 DEF serviceVars
    <3> QED BY <1>1, <2>1, <3>3, <3>4
  <2> QED BY <2>2, <2>3
<1>3. ASSUME NEW p \in Procs, Reads(p) \/ Writes(p) \/ Unzips(p), UNCHANGED <<serviceVars, mix>>
      PROVE  StartUpInv'
  <2>1. UNCHANGED <<phase, error, overlap, mix>>
    BY <1>3 DEF serviceVars
  <2>2. mix.files \subseteq Files
    BY MixesAssumption DEF Sound
  <2>3. node'[LogDir] = node[LogDir]
    BY <1>0, <1>3, <2>2 DEF Reads, Writes, Unzips, OpenToRead, OpenToWrite, UnzipTests
  <2>4. \A q \in Procs : Unzipping(q)' => Unzipping(q) \/ Does("unzip")
    <3>1. \A q \in Procs \ {p} : call'[q] = call[q]
      BY <1>0, <1>3 DEF Reads, Writes, Unzips, OpenToRead, OpenToWrite, UnzipTests
    <3>2. ASSUME NEW fn, NEW f, OpenToRead(p, fn, f) PROVE ~Unzipping(p)'
      <4>1. /\ [NewCall(fn, f) EXCEPT !.pc = "measure"].pc = "measure"
            /\ [NoCall EXCEPT !.path = f, !.ret = -1].pc = "over"
        BY DEF NewCall, NoCall
      <4>2. call'[p].pc \in {"measure", "over"}
        BY <1>0, <3>2, <4>1 DEF OpenToRead
      <4> QED BY <4>2 DEF Unzipping
    <3>3. ASSUME NEW f, NEW content, OpenToWrite(p, f, content) PROVE ~Unzipping(p)'
      <4>1. /\ [NewCall("write", f) EXCEPT !.pc = "write", !.data = content].pc = "write"
            /\ [NoCall EXCEPT !.path = f, !.ret = -1].pc = "over"
        BY DEF NewCall, NoCall
      <4>2. call'[p].pc \in {"write", "over"}
        BY <1>0, <3>3, <4>1 DEF OpenToWrite
      <4> QED BY <4>2 DEF Unzipping
    <3> QED BY <1>3, <3>1, <3>2, <3>3 DEF Reads, Writes, Unzips, Unzipping
  <2> QED BY <1>1, <2>1, <2>3, <2>4
<1>4. ASSUME NEW p \in Procs, UNCHANGED <<serviceVars, mix>>,
             LockOpens(p) \/ FlockFails(p) \/ Flock(p) \/ FuncReturns(p) \/ FuncThrows(p)
      PROVE  StartUpInv'
  BY <1>1, <1>4 DEF LockOpens, FlockFails, Flock, FuncReturns, FuncThrows, serviceVars, Unzipping
<1>5. ASSUME NEW p \in Procs, Kill(p) PROVE StartUpInv'
  <2>1. UNCHANGED <<node, mix>> /\ \A q \in Procs : call'[q] = call[q] \/ call'[q] = NoCall
    BY <1>0, <1>5 DEF Kill, Killed
  <2>2. \A q \in Procs : Unzipping(q)' => Unzipping(q)
    <3>1. NoCall.pc = "over"
      BY DEF NoCall
    <3> QED BY <2>1, <3>1 DEF Unzipping
  <2>3. /\ phase' = [phase EXCEPT ![p] = "off"] /\ error' = [error EXCEPT ![p] = ""]
        /\ overlap' = overlap \ {p}
    BY <1>5 DEF Kill, ServiceKilled
  <2> QED BY <2>1, <2>2, <2>3 DEF Phase
<1>6. ASSUME NEW fn \in Requests, Request(fn), UNCHANGED <<serviceVars, mix>> PROVE StartUpInv'
  BY <1>1, <1>6 DEF Request, filesVars, serviceVars, Unzipping
<1>7. ASSUME NEW fn, NEW f \in mix.files, OpenForTransfer(fn, f), UNCHANGED <<serviceVars, mix>>
      PROVE  StartUpInv'
  <2>1. f \in Files
    BY MixesAssumption DEF Sound
  <2> QED BY <1>0, <1>1, <1>7, <2>1 DEF OpenForTransfer, serviceVars, Unzipping
<1>8. ASSUME TransferStep, UNCHANGED <<serviceVars, mix>> PROVE StartUpInv'
  <2>1. call' = call /\ (node' = node \/ xfer.fn \in Downloads)
    BY <1>8 DEF TransferStep, HandleFails, HandleReady, OptionsFail, OptionsSet, Block, FlushFails,
                FileReturns, RequestReturns, Header, filesVars
  <2>2. xfer.fn \in Downloads => xfer.path \in Files
    BY DEF Sound, TransferSound, Xfer, Downloads, Requests
  <2>3. node'[LogDir] = node[LogDir]
    BY <1>0, <1>8, <2>1, <2>2 DEF TransferStep, HandleFails, HandleReady, OptionsFail, OptionsSet,
                Block, FlushFails, FileReturns, RequestReturns, Header, filesVars
  <2> QED BY <1>1, <1>8, <2>1, <2>3 DEF serviceVars, Unzipping
<1>9. CASE Serves
  <2>1. UNCHANGED <<call, mix>> /\ Does("serve") /\ ServiceNext
    BY <1>9 DEF Serves, ServiceNext, Launch, TestLogDir, Mkdirs, MkdirsFails, Start, AskedToQuit,
                Answer, filesVars
  <2>2. \A q \in Procs : Unzipping(q)' => Unzipping(q)
    BY <2>1 DEF Unzipping
  <2>3. ASSUME NEW p \in Procs, Mkdirs(p) PROVE StartUpInv'
    <3>1. node'[LogDir] = Directory /\ Directory # Absent /\ node[LogDir] = Absent
      BY <1>0, <2>3 DEF Mkdirs, Directory, Absent
    <3> QED BY <2>1, <2>2, <2>3, <3>1 DEF Mkdirs, Phase
  <2>4. ASSUME NEW p \in Procs, NEW d, Launch(p, d) PROVE StartUpInv'
    BY <2>1, <2>2, <2>4 DEF Launch, filesVars, Phase
  <2>5. ASSUME NEW p \in Procs, TestLogDir(p) \/ MkdirsFails(p) PROVE StartUpInv'
    BY <2>1, <2>2, <2>5 DEF TestLogDir, MkdirsFails, Exit, filesVars, Phase
  <2>6. ASSUME NEW p \in Procs, Start(p) \/ AskedToQuit(p) PROVE StartUpInv'
    BY <2>1, <2>2, <2>6 DEF Start, AskedToQuit, Exit, filesVars, Phase
  <2>7. ASSUME NEW p \in Procs, NEW m, NEW x, Answer(p, m, x) PROVE StartUpInv'
    BY <2>1, <2>2, <2>7 DEF Answer, filesVars
  <2> QED BY <2>1, <2>3, <2>4, <2>5, <2>6, <2>7 DEF ServiceNext
<1>10. CASE UNCHANGED vars
  BY <1>10, <1>1 DEF vars, filesVars, serviceVars, Unzipping
<1> QED BY <1>2, <1>3, <1>4, <1>5, <1>6, <1>7, <1>8, <1>9, <1>10, Steps

----------------------------------------------------------------------------
(* Files used only inside lock_file *)

(* Only the process that has the lock is inside, though the lock may be    *)
(* held by one that is not (FuncThrows), and whoever has a guarded file    *)
(* open is inside.                                                         *)
Using(p, f) == \/ call[p].pc \in Opened /\ call[p].path = f
               \/ p = Caller /\ xfer.file /\ xfer.path = f
LockHeld == \A p \in Procs : /\ section[p] = "in" => holder = p
                            /\ \A f \in Guarded : Using(p, f) => section[p] = "in"

LEMMA InitLock == Init => LockHeld
<1>1. NoCall.pc = "over" /\ NoTransfer.file = FALSE
  BY DEF NoCall, NoTransfer
<1>2. Init => \A p \in Procs : call[p].pc = "over" /\ section[p] = "out" /\ xfer.file = FALSE
  BY <1>1 DEF Init, FilesInit, NetInit
<1> QED BY <1>2 DEF LockHeld, Using, Opened

(* A helper keeps the path of its call while it has the file open.         *)
LEMMA FileStepPath ==
  ASSUME Sound, NEW p \in Procs, FileStep(p)
  PROVE  /\ call'[p].path = call[p].path
         /\ call'[p].pc \in Opened => call[p].pc \in Opened
<1>0. call \in [Procs -> Call] /\ call[p] \in Call
  BY DEF Sound, FilesTyped
<1>1. ASSUME NEW ret, NEW data, Return(p, ret, data)
      PROVE  call'[p].path = call[p].path /\ call'[p].pc = "over"
  BY <1>0, <1>1 DEF Return, NoCall
<1>2. CASE Measure(p)
  <2>1. call' = [call EXCEPT ![p].pc = "read", ![p].size = Len(Data(p))] => call'[p].path = call[p].path
    BY <1>0 DEF Call
  <2>2. \/ \E ret, data : Return(p, ret, data)
        \/ call' = [call EXCEPT ![p].pc = "read", ![p].size = Len(Data(p))]
    BY <1>2 DEF Measure
  <2> QED BY <1>1, <1>2, <2>1, <2>2, FileStepCloses DEF Measure, Opened
<1>3. CASE MeasureFails(p) \/ ReadReturns(p) \/ WriteReturns(p)
  <2>1. \E ret, data : Return(p, ret, data)
    BY <1>3 DEF MeasureFails, ReadReturns, WriteReturns
  <2> QED BY <1>1, <2>1, FileStepCloses DEF Opened
<1>4. CASE ReadBlock(p) \/ WriteBlock(p)
  <2>1. call'[p].path = call[p].path
    BY <1>0, <1>4 DEF ReadBlock, WriteBlock, Call
  <2> QED BY <2>1, FileStepCloses DEF Opened
<1>5. CASE UnzipMakes(p) \/ UnzipReturns(p)
  <2>1. (\E ret, data : Return(p, ret, data)) \/ call' = [call EXCEPT ![p].pc = "extract"]
    BY <1>5 DEF UnzipMakes, UnzipReturns
  <2>2. call'[p].path = call[p].path
    BY <1>0, <1>1, <2>1 DEF Call
  <2> QED BY <2>2, FileStepCloses DEF Opened
<1> QED BY <1>2, <1>3, <1>4, <1>5 DEF FileStep

LEMMA NextLock ==
  ASSUME Sound, LockHeld, [Next]_vars
  PROVE  LockHeld'
<1> USE DEF LockHeld
<1>0. /\ call \in [Procs -> Call] /\ section \in [Procs -> {"out", "wait", "in"}]
      /\ Caller \in Procs /\ Nobody \notin Procs
      /\ xfer.file => xfer.pc # "over"
  BY NetAssumption, FilesAssumption DEF Sound, FilesTyped, TransferSound
<1>1. ASSUME NEW p \in Procs, FileStep(p), UNCHANGED netVars PROVE LockHeld'
  <2>1. UNCHANGED <<section, holder>>
    BY <1>1 DEF FileStep, Measure, MeasureFails, ReadBlock, ReadReturns, WriteBlock, WriteReturns,
                UnzipMakes, UnzipReturns
  <2>2. \A q \in Procs : /\ call'[q].path = call[q].path
                         /\ call'[q].pc \in Opened => call[q].pc \in Opened
    BY <1>1, FileStepPath, FileStepCloses
  <2> QED BY <1>1, <2>1, <2>2 DEF Using, Opened, netVars
<1>2. ASSUME NEW p \in Procs, Reads(p) \/ Writes(p) \/ Unzips(p), UNCHANGED netVars
      PROVE  LockHeld'
  <2>1. UNCHANGED <<section, holder>>
    BY <1>2 DEF Reads, Writes, Unzips, OpenToRead, OpenToWrite, UnzipTests
  <2>2. \A q \in Procs \ {p} : call'[q] = call[q]
    BY <1>0, <1>2 DEF Reads, Writes, Unzips, OpenToRead, OpenToWrite, UnzipTests
  <2>3. call'[p].pc \in Opened => MayUse(p, call'[p].path)
    <3>1. ASSUME NEW fn \in Readers, NEW f \in mix.files, OpenToRead(p, fn, f)
          PROVE  MayUse(p, f) /\ (call'[p].path = f \/ call'[p].pc = "over")
      BY <1>0, <3>1, ZenonT(60) DEF OpenToRead, NewCall, NoCall
    <3>2. ASSUME NEW f \in mix.files, NEW content \in Contents, OpenToWrite(p, f, content)
          PROVE  MayUse(p, f) /\ (call'[p].path = f \/ call'[p].pc = "over")
      BY <1>0, <3>2, ZenonT(60) DEF OpenToWrite, NewCall, NoCall
    <3>3. ASSUME NEW d \in Dirs, UnzipTests(p, d)
          PROVE  call'[p].pc \in {"mkdir", "extract"}
      BY <1>0, <3>3 DEF UnzipTests, NewCall, NoCall
    <3> QED BY <1>2, <3>1, <3>2, <3>3 DEF Reads, Writes, Unzips, Opened
  <2> QED BY <1>2, <2>1, <2>2, <2>3 DEF Using, Opened, MayUse, netVars
<1>3. ASSUME NEW p \in Procs, ~Busy(p), UNCHANGED netVars,
             LockOpens(p) \/ FlockFails(p) \/ Flock(p) \/ FuncReturns(p) \/ FuncThrows(p)
      PROVE  LockHeld'
  <2>1. p = Caller => ~xfer.file
    BY <1>0, <1>3 DEF Busy
  <2>2. call' = call /\ xfer' = xfer
    BY <1>3 DEF LockOpens, FlockFails, Flock, FuncReturns, FuncThrows, netVars
  <2>3. CASE LockOpens(p) \/ FuncReturns(p) \/ FuncThrows(p)
    <3>1. call[p].pc = "over"
      BY <2>3 DEF LockOpens, FuncReturns, FuncThrows, Free
    <3>2. \A f : ~Using(p, f)'
      BY <2>1, <2>2, <3>1 DEF Using, Opened
    <3>3. \A f, q : Using(q, f)' <=> Using(q, f)
      BY <2>2 DEF Using, Opened
    <3> QED BY <1>0, <2>3, <3>2, <3>3 DEF LockOpens, FuncReturns, FuncThrows
  <2>4. CASE FlockFails(p) \/ Flock(p)
    <3>1. \A f, q : Using(q, f)' <=> Using(q, f)
      BY <2>2 DEF Using, Opened
    <3> QED BY <1>0, <2>4, <3>1 DEF FlockFails, Flock
  <2> QED BY <1>3, <2>3, <2>4
<1>4. ASSUME NEW p \in Procs, Kill(p) PROVE LockHeld'
  <2>1. /\ call'[p].pc = "over" /\ section'[p] = "out"
        /\ \A q \in Procs \ {p} : call'[q] = call[q] /\ section'[q] = section[q]
        /\ holder' = IF holder = p THEN Nobody ELSE holder
    BY <1>0, <1>4 DEF Kill, Killed, NoCall
  <2>2. p = Caller => ~xfer'.file
    BY <1>4 DEF Kill, CallerKilled, NoTransfer
  <2>3. p # Caller => xfer' = xfer
    BY <1>4 DEF Kill, netVars
  <2> QED BY <1>0, <2>1, <2>2, <2>3 DEF Using, Opened
<1>5. ASSUME NEW fn, Request(fn) PROVE LockHeld'
  <2>1. UNCHANGED <<call, section, holder>> /\ ~xfer'.file
    BY <1>5 DEF Request, filesVars, Transfer, NoTransfer
  <2> QED BY <2>1 DEF Using, Opened
<1>6. ASSUME NEW fn, NEW f, OpenForTransfer(fn, f) PROVE LockHeld'
  <2>1. UNCHANGED <<call, section, holder>> /\ xfer'.path = f /\ MayUse(Caller, f)
    BY <1>6 DEF OpenForTransfer, Transfer, NoTransfer
  <2> QED BY <1>0, <2>1 DEF Using, Opened, MayUse
<1>7. CASE TransferStep
  <2>1. UNCHANGED <<call, section, holder>>
    BY <1>7 DEF TransferStep, HandleFails, HandleReady, OptionsFail, OptionsSet, Block, FlushFails,
                FileReturns, RequestReturns, Header, filesVars
  <2>2. xfer'.file => xfer.file /\ xfer'.path = xfer.path
    <3>1. CASE Leave
      BY <3>1 DEF Leave, NoTransfer
    <3>2. CASE ~Leave
      BY <1>7, <3>2 DEF TransferStep, HandleFails, HandleReady, OptionsFail, OptionsSet, Block,
                FlushFails, FileReturns, RequestReturns, Header, Sound, TransferSound, Xfer
    <3> QED BY <3>1, <3>2
  <2> QED BY <2>1, <2>2 DEF Using, Opened
<1>8. CASE Serves
  BY <1>8 DEF Serves, ServiceNext, Launch, TestLogDir, Mkdirs, MkdirsFails, Start, AskedToQuit,
              Answer, filesVars, netVars, Using, Opened
<1>9. CASE UNCHANGED vars
  BY <1>9 DEF vars, filesVars, netVars, Using, Opened
<1> QED BY <1>1, <1>2, <1>3, <1>4, <1>5, <1>6, <1>7, <1>8, <1>9, Steps

----------------------------------------------------------------------------
(* What guarded files hold *)

Begins(s, w)   == Len(s) <= Len(w) /\ \A k \in 1 .. Len(s) : s[k] = w[k]
BeginsWhole(s) == \E w \in Wholes : Begins(s, w)

(* A guarded file is the beginning of something whole, and whole when its  *)
(* last writing reports so.  The call that has it open is as far as the    *)
(* file itself: a writer behind its last block, a reader within a file     *)
(* that nobody changes; so is the transfer.                                *)
FileRight(data, end) == BeginsWhole(data) /\ (end = "whole" => data \in Wholes)
CallRight(c, data, end) ==
  /\ c.pc = "write" => Len(data) = c.size /\ Begins(data, c.data) /\ end # "whole"
  /\ c.pc = "read" => Len(data) = c.size /\ Begins(c.data, data)
  /\ c.pc = "over" => BeginsWhole(c.data)
TransferRight(x, data, end) ==
  x.file /\ x.fn \in Downloads
  => Len(data) = Len(x.received) /\ Begins(data, Remote) /\ end # "whole"

FilesRight == \A f \in Guarded : FileRight(node[f].data, fate[f])
CallsRight == \A p \in Procs : \A f \in Guarded :
                call[p].path = f => CallRight(call[p], node[f].data, fate[f])
XferRight  == \A f \in Guarded : xfer.path = f => TransferRight(xfer, node[f].data, fate[f])
Right      == FilesRight /\ CallsRight /\ XferRight

LEMMA WholesTyped == Wholes \subseteq Seq(Nat) /\ Remote \in Wholes /\ Contents \subseteq Wholes
<1>1. Seq(Nat \ {NUL}) \subseteq Seq(Nat)
  BY SeqMonotonic
<1> QED BY <1>1, FilesAssumption, NetAssumption DEF Wholes

LEMMA BeginsNothing == \A w \in Seq(Nat) : Begins(<<>>, w)
BY EmptySeq, LenProperties DEF Begins

LEMMA NothingRight == BeginsWhole(<<>>)
BY BeginsNothing, WholesTyped DEF BeginsWhole

LEMMA BeginsAll ==
  ASSUME NEW s \in Seq(Nat), NEW w \in Seq(Nat), Begins(s, w), Len(w) <= Len(s)
  PROVE  s = w
BY LenProperties, SeqEqual DEF Begins

LEMMA BeginsBoth ==
  ASSUME NEW s \in Seq(Nat), NEW t \in Seq(Nat), NEW w \in Seq(Nat), Begins(s, t), Begins(t, w)
  PROVE  Begins(s, w)
BY LenProperties DEF Begins

LEMMA BeginsLonger ==
  ASSUME NEW s \in Seq(Nat), NEW t \in Seq(Nat), NEW w \in Seq(Nat), Begins(s, w),
         Len(s) < Len(w), Len(t) = Len(s) + 1,
         \A k \in 1 .. Len(s) : t[k] = s[k], t[Len(s) + 1] = w[Len(s) + 1]
  PROVE  Begins(t, w)
<1>1. Len(s) \in Nat /\ Len(w) \in Nat /\ Len(t) <= Len(w)
  BY LenProperties
<1>2. ASSUME NEW k \in 1 .. Len(t) PROVE t[k] = w[k]
  <2>1. k \in 1 .. Len(s) \/ k = Len(s) + 1
    BY <1>1
  <2> QED BY <2>1 DEF Begins
<1> QED BY <1>1, <1>2 DEF Begins

LEMMA BeginsCut ==
  ASSUME NEW s \in Seq(Nat), NEW n \in Nat, n <= Len(s)
  PROVE  Begins(SubSeq(s, 1, n), s) /\ SubSeq(s, 1, n) \in Seq(Nat)
BY LenProperties, SubSeqProperties DEF Begins

LEMMA RightFollows == Sound /\ Right => NoTornRead /\ WholeAfterSuccess
<1> SUFFICES ASSUME Sound, Right PROVE NoTornRead /\ WholeAfterSuccess
  OBVIOUS
<1>1. ASSUME NEW p \in Procs, call[p].pc = "over", call[p].path \in Guarded
      PROVE  \E w \in Wholes : IsPrefix(call[p].data, w)
  <2>1. PICK w \in Wholes : Begins(call[p].data, w)
    BY <1>1 DEF Right, CallsRight, CallRight, BeginsWhole
  <2>2. call[p] \in Call
    BY DEF Sound, FilesTyped
  <2>3. call[p].data \in Seq(Nat) /\ w \in Seq(Nat)
    BY <2>2, WholesTyped DEF Call
  <2>4. IsPrefix(call[p].data, w)
    BY <2>1, <2>3, PrefixElements DEF Begins
  <2> QED BY <2>4
<1>2. WholeAfterSuccess
  BY DEF Right, FilesRight, FileRight, WholeAfterSuccess
<1> QED BY <1>1, <1>2 DEF NoTornRead

LEMMA InitRight == Init => Right
<1> SUFFICES ASSUME Init PROVE Right
  OBVIOUS
<1>1. Sound
  BY InitSound
<1>2. NoCall.pc = "over" /\ NoCall.data = <<>> /\ NoTransfer.file = FALSE
  BY DEF NoCall, NoTransfer
<1>3. \A p \in Procs : call[p] = NoCall
  BY DEF Init, FilesInit
<1>4. \A f \in Files : node[f].data = <<>> /\ fate[f] = "absent"
  BY DEF Init, FilesInit, Absent
<1>5. xfer.file = FALSE
  BY <1>2 DEF Init, NetInit
<1> QED BY <1>2, <1>3, <1>4, <1>5, NothingRight, FilesAssumption
        DEF Right, FilesRight, CallsRight, XferRight, FileRight, CallRight, TransferRight

(* A step of p that writes at most the files X, inside lock_file when they *)
(* are guarded, leaves the other processes and the other files right.      *)
LEMMA OthersRight ==
  ASSUME Sound, LockHeld, Right, NEW p \in Procs, NEW X \in SUBSET Files,
         \A f \in X \intersect Guarded : section[p] = "in",
         \A q \in Procs \ {p} : call'[q] = call[q],
         \A f \in Guarded \ X : /\ node'[f].data = node[f].data
                                /\ fate'[f] = "whole" => fate[f] = "whole"
  PROVE  /\ \A q \in Procs \ {p} : \A f \in Guarded :
              call'[q].path = f => CallRight(call'[q], node'[f].data, fate'[f])
         /\ \A f \in Guarded \ X : FileRight(node'[f].data, fate'[f])
         /\ p # Caller /\ xfer' = xfer =>
              \A f \in Guarded : xfer'.path = f => TransferRight(xfer', node'[f].data, fate'[f])
<1>1. \A q \in Procs \ {p}, f \in X \intersect Guarded : ~Using(q, f)
  BY DEF LockHeld
<1>2. ASSUME NEW q \in Procs \ {p}, NEW f \in Guarded, call'[q].path = f
      PROVE  CallRight(call'[q], node'[f].data, fate'[f])
  <2>1. CallRight(call[q], node[f].data, fate[f])
    BY <1>2 DEF Right, CallsRight
  <2>2. CASE f \in X
    <3>1. call[q].pc \notin Opened
      BY <1>1, <1>2, <2>2 DEF Using
    <3> QED BY <2>1, <3>1 DEF CallRight, Opened
  <2>3. CASE f \notin X
    BY <2>1, <2>3 DEF CallRight
  <2> QED BY <2>2, <2>3
<1>3. \A f \in Guarded \ X : FileRight(node'[f].data, fate'[f])
  BY DEF Right, FilesRight, FileRight
<1>4. ASSUME p # Caller, xfer' = xfer, NEW f \in Guarded, xfer.path = f
      PROVE  TransferRight(xfer, node'[f].data, fate'[f])
  <2>1. TransferRight(xfer, node[f].data, fate[f])
    BY <1>4 DEF Right, XferRight
  <2>2. CASE f \in X
    BY <1>1, <1>4, <2>2, NetAssumption DEF Using, TransferRight
  <2>3. CASE f \notin X
    BY <2>1, <2>3 DEF TransferRight
  <2> QED BY <2>2, <2>3
<1> QED BY <1>2, <1>3, <1>4

(* A step of one process with its files keeps everything right when it     *)
(* does so for its own call and for the files it writes.                   *)
LEMMA ProcessRight ==
  ASSUME Sound, LockHeld, Right, NEW p \in Procs, ~Busy(p), xfer' = xfer, NEW X \in SUBSET Files,
         \A f \in X \intersect Guarded : section[p] = "in",
         \A q \in Procs \ {p} : call'[q] = call[q],
         \A f \in Guarded \ X : /\ node'[f].data = node[f].data
                                /\ fate'[f] = "whole" => fate[f] = "whole",
         \A f \in Guarded : call'[p].path = f => CallRight(call'[p], node'[f].data, fate'[f]),
         \A f \in X \intersect Guarded : FileRight(node'[f].data, fate'[f])
  PROVE  Right'
<1>1. /\ \A q \in Procs \ {p} : \A f \in Guarded :
           call'[q].path = f => CallRight(call'[q], node'[f].data, fate'[f])
      /\ \A f \in Guarded \ X : FileRight(node'[f].data, fate'[f])
      /\ p # Caller => \A f \in Guarded : xfer'.path = f => TransferRight(xfer', node'[f].data, fate'[f])
  BY OthersRight
<1>2. CallsRight'
  BY <1>1 DEF CallsRight
<1>3. FilesRight'
  BY <1>1 DEF FilesRight
<1>4. XferRight'
  <2>1. p = Caller => ~xfer'.file
    BY DEF Busy, Sound, TransferSound
  <2> QED BY <1>1, <2>1 DEF XferRight, TransferRight
<1> QED BY <1>2, <1>3, <1>4 DEF Right

LEMMA NothingDone ==
  ASSUME Sound, Right, UNCHANGED <<call, fate>>, xfer' = xfer \/ xfer'.file = FALSE,
         \A f \in Files : node'[f].data = node[f].data
  PROVE  Right'
BY FilesAssumption
   DEF Right, FilesRight, CallsRight, XferRight, FileRight, CallRight, TransferRight

(* What a helper returns from a file is the beginning of something whole.  *)
LEMMA ReturnedRight ==
  ASSUME FilesTyped, NEW p \in Procs, NEW ret \in Int, NEW data \in Seq(Nat), Return(p, ret, data),
         BeginsWhole(data), NEW file, NEW end
  PROVE  CallRight(call'[p], file, end)
<1>1. PICK c \in Call : CallBecomes(p, c) /\ c.pc = "over" /\ c.data = data
  BY Returned DEF FilesTyped
<1>2. call'[p] = c
  BY <1>1, CallOnly DEF FilesTyped
<1> QED BY <1>1, <1>2 DEF CallRight

LEMMA FileStepRight ==
  ASSUME Sound, LockHeld, Right, NEW p \in Procs, ~Busy(p), FileStep(p), xfer' = xfer
  PROVE  Right'
<1> DEFINE path == call[p].path
<1>0. /\ call \in [Procs -> Call] /\ call[p] \in Call /\ Placed(call[p]) /\ FilesTyped
      /\ node \in [Files \union Dirs -> Node] /\ fate \in [Files -> Fate]
      /\ \A f \in Guarded : f \in Files /\ f \notin Dirs
  BY FilesAssumption DEF Sound, FilesTyped, CallsPlaced
<1>1. \A q \in Procs \ {p} : call'[q] = call[q]
  BY FileStepCloses
<1>2. call'[p].path = path
  BY FileStepPath
<1>3. path \in Guarded => CallRight(call[p], node[path].data, fate[path])
  BY DEF Right, CallsRight
<1>4. path \in Guarded => FileRight(node[path].data, fate[path])
  BY DEF Right, FilesRight
<1>5. call[p].pc \in Opened => path \in Files /\ node[path].data \in Seq(Nat)
  BY OpenedAtPath DEF Sound, Data
<1>6. call[p].pc \in Opened /\ path \in Guarded => section[p] = "in"
  BY DEF LockHeld, Using
<1>7. ASSUME \A f \in Guarded : node'[f].data = node[f].data /\ fate'[f] = fate[f],
             path \in Guarded => CallRight(call'[p], node[path].data, fate[path])
      PROVE  Right'
  <2>1. {} \in SUBSET Files
    OBVIOUS
  <2> HIDE DEF path
  <2> QED BY <1>1, <1>2, <1>7, <2>1, ProcessRight
<1>8. ASSUME NEW ret \in Int, NEW data \in Seq(Nat), Return(p, ret, data), path \in Guarded => BeginsWhole(data),
             \A f \in Guarded : node'[f].data = node[f].data /\ fate'[f] = fate[f]
      PROVE  Right'
  <2>1. path \in Guarded => CallRight(call'[p], node[path].data, fate[path])
    BY <1>0, <1>8, ReturnedRight
  <2> QED BY <1>7, <1>8, <2>1
<1>9. <<>> \in Seq(Nat) /\ BeginsWhole(<<>>) /\ {-1, -2, -3, 0} \subseteq Int
  BY NothingRight
<1> HIDE DEF path
<1>10. CASE Measure(p)
  <2>1. \A f \in Guarded : node'[f].data = node[f].data /\ fate'[f] = fate[f]
    BY <1>10 DEF Measure
  <2>2. Len(Data(p)) \in Nat /\ call[p].pc \in Opened
    BY <1>10, OpenedAtPath DEF Measure, Opened, Sound
  <2>3. CASE \E ret \in Int : Return(p, ret, <<>>)
    BY <1>8, <1>9, <2>1, <2>3
  <2>4. CASE call' = [call EXCEPT ![p].pc = "read", ![p].size = Len(Data(p))]
    <3>1. /\ call'[p].pc = "read" /\ call'[p].size = Len(Data(p)) /\ call'[p].data = call[p].data
          /\ call[p].data = <<>>
      BY <1>0, <1>10, <2>4 DEF Call, Placed, Measure
    <3>2. Begins(<<>>, node[path].data)
      BY <1>5, <2>2, BeginsNothing
    <3>3. CallRight(call'[p], node[path].data, fate[path])
      BY <3>1, <3>2 DEF CallRight, Data, path
    <3> QED BY <1>7, <2>1, <3>3
  <2>5. (\E ret \in Int : Return(p, ret, <<>>)) \/ call' = [call EXCEPT ![p].pc = "read", ![p].size = Len(Data(p))]
    BY <1>10, <1>9, <2>2 DEF Measure
  <2> QED BY <2>3, <2>4, <2>5
<1>11. CASE MeasureFails(p)
  BY <1>8, <1>9, <1>11 DEF MeasureFails
<1>12. CASE ReadBlock(p)
  <2> DEFINE data == call[p].data
             k == Len(data) + 1
  <2>0. /\ data \in Seq(Nat) /\ Len(data) \in Nat /\ call[p].size \in Nat /\ call[p].pc = "read"
        /\ Len(data) < call[p].size
    BY <1>0, <1>12, LenProperties DEF ReadBlock, Call
  <2>1. \A f \in Guarded : node'[f].data = node[f].data /\ fate'[f] = fate[f]
    BY <1>12 DEF ReadBlock
  <2>2. ASSUME path \in Guarded PROVE CallRight(call'[p], node[path].data, fate[path])
    <3>1. Len(node[path].data) = call[p].size /\ Begins(data, node[path].data) /\ node[path].data \in Seq(Nat)
      BY <1>3, <1>5, <2>0, <2>2 DEF CallRight, Opened
    <3>2. /\ call'[p].data = Append(data, node[path].data[k])
          /\ call'[p].pc = "read" /\ call'[p].size = call[p].size
      BY <1>0, <1>12, <2>0, <3>1 DEF ReadBlock, Call, Data, path
    <3>3. node[path].data[k] \in Nat
      <4>1. k \in 1 .. Len(node[path].data)
        BY <2>0, <3>1
      <4> HIDE DEF k
      <4> QED BY <3>1, <4>1
    <3>4. /\ Append(data, node[path].data[k]) \in Seq(Nat)
          /\ Len(Append(data, node[path].data[k])) = Len(data) + 1
          /\ Append(data, node[path].data[k])[Len(data) + 1] = node[path].data[Len(data) + 1]
          /\ \A i \in 1 .. Len(data) : Append(data, node[path].data[k])[i] = data[i]
      <4> HIDE DEF data
      <4> QED BY <2>0, <3>3, AppendProperties
    <3>5. Begins(Append(data, node[path].data[k]), node[path].data)
      <4> HIDE DEF data, k
      <4> QED BY <2>0, <3>1, <3>4, BeginsLonger
    <3> QED BY <3>1, <3>2, <3>5 DEF CallRight
  <2> QED BY <1>7, <2>1, <2>2
<1>13. CASE ReadReturns(p)
  <2> DEFINE data == call[p].data
             n == AsString(data) - 1
  <2>0. data \in Seq(Nat) /\ Len(data) \in Nat /\ call[p].pc = "read" /\ Len(data) = call[p].size
    BY <1>0, <1>13, LenProperties DEF ReadReturns, Call
  <2>1. \A f \in Guarded : node'[f].data = node[f].data /\ fate'[f] = fate[f]
    BY <1>13 DEF ReadReturns
  <2>2. PICK out : (out = data \/ (out = SubSeq(data, 1, n) /\ AsString(data) > 0)) /\ Return(p, 0, out)
    BY <1>13 DEF ReadReturns
  <2>3. AsString(data) \in Nat /\ AsString(data) <= Len(data)
    BY <2>0, CutPlace
  <2>4. out \in Seq(Nat) /\ Begins(out, data)
    <3>1. out = data => Begins(out, data)
      BY DEF Begins
    <3>2. n \in Nat /\ n <= Len(data) => SubSeq(data, 1, n) \in Seq(Nat) /\ Begins(SubSeq(data, 1, n), data)
      <4> HIDE DEF data, n
      <4> QED BY <2>0, BeginsCut
    <3>3. AsString(data) > 0 => n \in Nat /\ n <= Len(data)
      BY <2>0, <2>3
    <3> HIDE DEF data, n
    <3> QED BY <2>0, <2>2, <3>1, <3>2, <3>3
  <2>5. ASSUME path \in Guarded PROVE BeginsWhole(out)
    <3>1. PICK w \in Wholes : Begins(node[path].data, w)
      BY <1>4, <2>5 DEF FileRight, BeginsWhole
    <3>2. Begins(data, node[path].data) /\ node[path].data \in Seq(Nat) /\ w \in Seq(Nat)
      BY <1>3, <1>5, <2>0, <2>5, WholesTyped DEF CallRight, Opened
    <3>3. Begins(out, node[path].data)
      BY <2>0, <2>4, <3>2, BeginsBoth
    <3>4. Begins(out, w)
      BY <2>4, <3>1, <3>2, <3>3, BeginsBoth
    <3> QED BY <3>4 DEF BeginsWhole
  <2> HIDE DEF data, n
  <2> QED BY <1>8, <1>9, <2>1, <2>2, <2>4, <2>5
<1>14. CASE WriteBlock(p)
  <2> DEFINE data == call[p].data
             k == call[p].size + 1
             old == node[path].data
             new == Written(old, k, data[k])
  <2>0. /\ data \in Contents /\ data \in Seq(Nat) /\ Len(data) \in Nat /\ call[p].size \in Nat
        /\ call[p].size < Len(data) /\ call[p].pc = "write" /\ path \in Files /\ old \in Seq(Nat)
    BY <1>0, <1>5, <1>14, LenProperties DEF WriteBlock, Call, Placed, Opened
  <2>1. node' = [node EXCEPT ![path].data = new] /\ call' = [call EXCEPT ![p].size = k] /\ fate' = fate
    BY <1>14 DEF WriteBlock, path
  <2>2. /\ \A f \in Guarded \ {path} : node'[f] = node[f]
        /\ node'[path].data = new
        /\ call'[p].size = k /\ call'[p].pc = "write" /\ call'[p].data = data
    <3> HIDE DEF new, k
    <3> QED BY <1>0, <2>0, <2>1 DEF Call, Node
  <2>3. ASSUME path \in Guarded
        PROVE  /\ CallRight(call'[p], node'[path].data, fate'[path])
               /\ FileRight(node'[path].data, fate'[path])
    <3>1. Len(old) = call[p].size /\ Begins(old, data) /\ fate[path] # "whole"
      BY <1>3, <2>0, <2>3 DEF CallRight
    <3>2. data[k] \in Nat /\ k \in Nat \ {0} /\ k = Len(old) + 1
      <4>1. k \in 1 .. Len(data)
        BY <2>0
      <4> HIDE DEF k, data
      <4> QED BY <2>0, <3>1, <4>1, SMTT(30) DEF k
    <3>3. /\ new \in Seq(Nat) /\ Len(new) = k
          /\ \A j \in 1 .. Len(new) : new[j] = IF j = k THEN data[k] ELSE IF j <= Len(old) THEN old[j] ELSE NUL
      <4> HIDE DEF old, k, data
      <4>1. ~(k <= Len(old))
        BY <2>0, <3>2, LenProperties
      <4> QED BY <2>0, <3>2, <4>1, WrittenSeq
    <3>4. Begins(new, data)
      <4>1. /\ Len(new) = Len(old) + 1 /\ new[Len(old) + 1] = data[Len(old) + 1]
            /\ \A j \in 1 .. Len(old) : new[j] = old[j]
        <5>1. Len(old) \in Nat
          BY <2>0, LenProperties
        <5> HIDE DEF old, new, data, k
        <5>2. Len(new) = Len(old) + 1 /\ k \in 1 .. Len(new) /\ \A j \in 1 .. Len(old) : j \in 1 .. Len(new) /\ j # k /\ j <= Len(old)
          BY <3>2, <3>3, <5>1
        <5> QED BY <3>2, <3>3, <5>2
      <4> HIDE DEF old, new, data
      <4> QED BY <2>0, <3>1, <3>3, <4>1, BeginsLonger, ZenonT(60)
    <3>5. BeginsWhole(new)
      BY <2>0, <3>4, WholesTyped DEF BeginsWhole
    <3> HIDE DEF new, k, old, data
    <3> QED BY <2>1, <2>2, <3>1, <3>3, <3>4, <3>5 DEF CallRight, FileRight
  <2>4. path \in Guarded => section[p] = "in"
    BY <1>6, <2>0 DEF Opened
  <2>5. {path} \in SUBSET Files /\ \A f \in Guarded \ {path} : fate'[f] = fate[f]
    BY <2>0, <2>1
  <2> HIDE DEF data, k, old, new
  <2> QED BY <1>1, <1>2, <2>2, <2>3, <2>4, <2>5, ProcessRight
<1>15. CASE WriteReturns(p)
  <2> DEFINE data == call[p].data
             end == IF call[p].size = Len(data) THEN "whole" ELSE "disk full"
  <2>0. /\ data \in Contents /\ data \in Seq(Nat) /\ Len(data) \in Nat /\ call[p].size \in Nat
        /\ call[p].pc = "write" /\ path \in Files /\ node[path].data \in Seq(Nat)
    BY <1>0, <1>5, <1>15, LenProperties DEF WriteReturns, Call, Placed, Opened
  <2>1. \E ret \in Int : Return(p, ret, <<>>)
    <3>1. PICK ret \in {call[p].size, Len(call[p].data)} : Return(p, ret, <<>>)
      BY <1>15 DEF WriteReturns
    <3> QED BY <2>0, <3>1
  <2>2. node' = node /\ fate' = [fate EXCEPT ![path] = end]
    BY <1>15 DEF WriteReturns, path
  <2>3. fate'[path] = end /\ \A f \in Guarded \ {path} : fate'[f] = fate[f]
    BY <1>0, <2>0, <2>2
  <2>4. CallRight(call'[p], node'[path].data, fate'[path])
    BY <1>0, <1>9, <2>1, ReturnedRight
  <2>5. ASSUME path \in Guarded PROVE FileRight(node'[path].data, fate'[path])
    <3>1. Len(node[path].data) = call[p].size /\ Begins(node[path].data, data)
      BY <1>3, <2>0, <2>5 DEF CallRight
    <3>2. end = "whole" => node[path].data = data
      <4> HIDE DEF data
      <4> QED BY <2>0, <3>1, BeginsAll
    <3> QED BY <1>4, <2>0, <2>2, <2>3, <2>5, <3>2, WholesTyped DEF FileRight
  <2>6. path \in Guarded => section[p] = "in"
    BY <1>6, <2>0 DEF Opened
  <2>7. {path} \in SUBSET Files
    BY <2>0
  <2> HIDE DEF data, end
  <2> QED BY <1>1, <1>2, <2>2, <2>3, <2>4, <2>5, <2>6, <2>7, ProcessRight
<1>16. CASE UnzipMakes(p)
  <2>1. path \in Dirs /\ path \notin Guarded
    BY <1>0, <1>16 DEF UnzipMakes, Placed, path
  <2>2. \A f \in Guarded : node'[f].data = node[f].data /\ fate'[f] = fate[f]
    BY <1>0, <1>16, <2>1 DEF UnzipMakes, path
  <2> QED BY <1>7, <2>1, <2>2
<1>17. CASE UnzipReturns(p)
  BY <1>8, <1>9, <1>17 DEF UnzipReturns
<1> QED BY <1>10, <1>11, <1>12, <1>13, <1>14, <1>15, <1>16, <1>17 DEF FileStep

LEMMA CallBeginsRight ==
  ASSUME Sound, LockHeld, Right, NEW p \in Procs, ~Busy(p), Reads(p) \/ Writes(p) \/ Unzips(p),
         xfer' = xfer
  PROVE  Right'
<1>0. /\ call \in [Procs -> Call] /\ node \in [Files \union Dirs -> Node] /\ fate \in [Files -> Fate]
      /\ mix.files \subseteq Files
  BY MixesAssumption DEF Sound, FilesTyped
<1>1. \A q \in Procs \ {p} : call'[q] = call[q]
  BY <1>0 DEF Reads, Writes, Unzips, OpenToRead, OpenToWrite, UnzipTests
<1>2. ASSUME UNCHANGED <<node, fate>>,
             \/ call'[p].pc \in {"measure", "mkdir", "extract"}
             \/ call'[p].pc = "over" /\ call'[p].data = <<>>
      PROVE  Right'
  <2>1. \A f \in Guarded : CallRight(call'[p], node'[f].data, fate'[f])
    BY <1>2, NothingRight DEF CallRight
  <2>2. {} \in SUBSET Files
    OBVIOUS
  <2> QED BY <1>1, <1>2, <2>1, <2>2, ProcessRight
<1>3. NoCall.data = <<>> /\ NoCall.pc = "over"
  BY DEF NoCall
<1>4. ASSUME NEW fn \in Readers, NEW f \in mix.files, OpenToRead(p, fn, f) PROVE Right'
  <2>1. \/ call'[p].pc = "measure"
        \/ call'[p].pc = "over" /\ call'[p].data = <<>>
    BY <1>0, <1>4, ZenonT(60) DEF OpenToRead, NewCall, NoCall
  <2> QED BY <1>2, <1>4, <2>1 DEF OpenToRead
<1>5. ASSUME NEW f \in mix.files, NEW content \in Contents, OpenToWrite(p, f, content) PROVE Right'
  <2>1. CASE CanOpen(p)
    <3>1. /\ f \in Files /\ (f \in Guarded => section[p] = "in")
          /\ node'[f].data = <<>> /\ fate'[f] = "open"
          /\ \A g \in Guarded \ {f} : node'[g] = node[g] /\ fate'[g] = fate[g]
      BY <1>0, <1>5, <2>1, FilesAssumption DEF OpenToWrite, MayUse, File
    <3>2. /\ call'[p].pc = "write" /\ call'[p].size = 0 /\ call'[p].data = content
          /\ call'[p].path = f
      BY <1>0, <1>5, <2>1, ZenonT(60) DEF OpenToWrite, NewCall, NoCall
    <3>3. Len(<<>>) = 0 /\ Begins(<<>>, content)
      BY BeginsNothing, WholesTyped
    <3>4. CallRight(call'[p], node'[f].data, fate'[f]) /\ FileRight(node'[f].data, fate'[f])
      BY <3>1, <3>2, <3>3, NothingRight DEF CallRight, FileRight
    <3>5. {f} \in SUBSET Files
      BY <3>1
    <3> QED BY <1>1, <3>1, <3>2, <3>4, <3>5, ProcessRight
  <2>2. CASE ~CanOpen(p)
    <3>1. call'[p].pc = "over" /\ call'[p].data = <<>>
      BY <1>0, <1>5, <2>2 DEF OpenToWrite, NoCall
    <3> QED BY <1>2, <1>5, <2>2, <3>1 DEF OpenToWrite
  <2> QED BY <2>1, <2>2
<1>6. ASSUME NEW d \in Dirs, UnzipTests(p, d) PROVE Right'
  <2>1. call'[p].pc \in {"mkdir", "extract"}
    BY <1>0, <1>6 DEF UnzipTests, NewCall, NoCall
  <2> QED BY <1>2, <1>6, <2>1 DEF UnzipTests
<1> QED BY <1>4, <1>5, <1>6 DEF Reads, Writes, Unzips

LEMMA KillRight ==
  ASSUME Sound, LockHeld, Right, NEW p \in Procs, Kill(p)
  PROVE  Right'
<1>1. /\ \A q \in Procs \ {p} : call'[q] = call[q]
      /\ call'[p].pc = "over" /\ call'[p].data = <<>>
  BY DEF Kill, Killed, NoCall, Sound, FilesTyped
<1>2. \A f \in Guarded \ {} : /\ node'[f].data = node[f].data
                              /\ fate'[f] = "whole" => fate[f] = "whole"
  BY FilesAssumption DEF Kill, Killed
<1>3. {} \in SUBSET Files
  OBVIOUS
<1>4. /\ \A q \in Procs \ {p} : \A f \in Guarded :
           call'[q].path = f => CallRight(call'[q], node'[f].data, fate'[f])
      /\ \A f \in Guarded : FileRight(node'[f].data, fate'[f])
      /\ p # Caller /\ xfer' = xfer =>
           \A f \in Guarded : xfer'.path = f => TransferRight(xfer', node'[f].data, fate'[f])
  BY <1>1, <1>2, <1>3, OthersRight
<1>5. CallsRight' /\ FilesRight'
  BY <1>1, <1>4, NothingRight DEF CallsRight, FilesRight, CallRight
<1>6. XferRight'
  <2>1. p = Caller => ~xfer'.file
    BY DEF Kill, CallerKilled, NoTransfer
  <2>2. p # Caller => xfer' = xfer
    BY DEF Kill, netVars
  <2> QED BY <1>4, <2>1, <2>2 DEF XferRight, TransferRight
<1> QED BY <1>5, <1>6 DEF Right

(* The same of a step of the transfer, which is in no call of a helper.    *)
LEMMA TransferRightKept ==
  ASSUME Sound, LockHeld, Right, call' = call, call[Caller].pc = "over", NEW X \in SUBSET Files,
         \A f \in X \intersect Guarded : section[Caller] = "in",
         \A f \in Guarded \ X : /\ node'[f].data = node[f].data
                                /\ fate'[f] = "whole" => fate[f] = "whole",
         \A f \in X \intersect Guarded : FileRight(node'[f].data, fate'[f]),
         \A f \in Guarded : xfer'.path = f => TransferRight(xfer', node'[f].data, fate'[f])
  PROVE  Right'
<1>1. Caller \in Procs /\ \A q \in Procs \ {Caller} : call'[q] = call[q]
  BY NetAssumption
<1>2. /\ \A q \in Procs \ {Caller} : \A f \in Guarded :
           call'[q].path = f => CallRight(call'[q], node'[f].data, fate'[f])
      /\ \A f \in Guarded \ X : FileRight(node'[f].data, fate'[f])
  BY <1>1, OthersRight
<1>3. \A f \in Guarded : call[Caller].path = f => BeginsWhole(call[Caller].data)
  BY <1>1 DEF Right, CallsRight, CallRight
<1>4. CallsRight'
  BY <1>2, <1>3 DEF CallsRight, CallRight
<1>5. FilesRight'
  BY <1>2 DEF FilesRight
<1> QED BY <1>4, <1>5 DEF Right, XferRight

LEMMA TransferBeginsRight ==
  ASSUME Sound, LockHeld, Right, NEW fn \in Uploads \union Downloads, NEW f \in mix.files,
         OpenForTransfer(fn, f)
  PROVE  Right'
<1>0. /\ f \in Files /\ (f \in Guarded => section[Caller] = "in") /\ call[Caller].pc = "over"
      /\ call' = call /\ node \in [Files \union Dirs -> Node] /\ fate \in [Files -> Fate]
  BY MixesAssumption DEF OpenForTransfer, MayUse, CallerFree, Free, Sound, FilesTyped
<1>1. xfer' = OfFile(fn, f)
  BY DEF OpenForTransfer, OfFile
<1>2. xfer'.fn = fn /\ xfer'.path = f /\ xfer'.received = <<>>
  <2>1. f \in Files
    BY <1>0
  <2>2. /\ OfFile(fn, f) \in Xfer
        /\ OfFile(fn, f).fn = fn /\ OfFile(fn, f).path = f /\ OfFile(fn, f).pc = "opened"
        /\ OfFile(fn, f).file = TRUE /\ OfFile(fn, f).received = <<>>
    BY <2>1, FileTransferRecord
  <2> QED BY <1>1, <2>2
<1>3. CASE fn \in Downloads
  <2>1. /\ node'[f].data = <<>> /\ fate'[f] = "open"
        /\ \A g \in Guarded \ {f} : node'[g] = node[g] /\ fate'[g] = fate[g]
    BY <1>0, <1>3, FilesAssumption DEF OpenForTransfer, File
  <2>2. Begins(<<>>, Remote)
    BY BeginsNothing, WholesTyped
  <2>3. FileRight(node'[f].data, fate'[f]) /\ TransferRight(xfer', node'[f].data, fate'[f])
    BY <1>2, <2>1, <2>2, NothingRight DEF FileRight, TransferRight
  <2>4. {f} \in SUBSET Files
    BY <1>0
  <2> QED BY <1>0, <1>2, <2>1, <2>3, <2>4, TransferRightKept
<1>4. CASE fn \notin Downloads
  <2>1. UNCHANGED <<node, fate>>
    BY <1>4 DEF OpenForTransfer
  <2>2. \A g \in Guarded : TransferRight(xfer', node'[g].data, fate'[g])
    BY <1>2, <1>4 DEF TransferRight
  <2>3. {} \in SUBSET Files
    OBVIOUS
  <2> QED BY <1>0, <2>1, <2>2, <2>3, TransferRightKept
<1> QED BY <1>3, <1>4

LEMMA TransferStepRight ==
  ASSUME Sound, LockHeld, Right, TransferStep
  PROVE  Right'
<1> DEFINE path == xfer.path
           data == node[path].data
<1>0. /\ xfer \in Xfer /\ call[Caller].pc = "over" /\ Caller \in Procs
      /\ node \in [Files \union Dirs -> Node] /\ fate \in [Files -> Fate]
      /\ xfer.received \in Seq(Nat) /\ Remote \in Seq(Nat) /\ Remote \in Wholes
  <2>1. xfer.pc # "over"
    BY DEF TransferStep, HandleFails, HandleReady, OptionsFail, OptionsSet, Block, FlushFails,
           FileReturns, RequestReturns, Header
  <2> QED BY <2>1, NetAssumption, WholesTyped DEF Sound, FilesTyped, TransferSound, Xfer
<1>1. /\ call' = call
      /\ \A g \in Guarded : g \in Files
  BY FilesAssumption DEF TransferStep, HandleFails, HandleReady, OptionsFail, OptionsSet, Block,
     FlushFails, FileReturns, RequestReturns, Header, filesVars
<1>2. xfer.fn \in Downloads /\ xfer.pc # "over"
      => /\ path \in Files /\ data \in Seq(Nat) /\ (path \in Guarded => section[Caller] = "in")
         /\ path \in Guarded => /\ Len(data) = Len(xfer.received) /\ Begins(data, Remote)
                               /\ fate[path] # "whole" /\ FileRight(data, fate[path])
  <2> SUFFICES ASSUME xfer.fn \in Downloads, xfer.pc # "over"
               PROVE  /\ path \in Files /\ data \in Seq(Nat) /\ (path \in Guarded => section[Caller] = "in")
                      /\ path \in Guarded => /\ Len(data) = Len(xfer.received) /\ Begins(data, Remote)
                                            /\ fate[path] # "whole" /\ FileRight(data, fate[path])
    OBVIOUS
  <2>1. xfer.file /\ path \in Files
    BY DEF Sound, TransferSound, Downloads, Requests
  <2>2. data \in Seq(Nat)
    BY <2>1, AtPath DEF Sound
  <2>3. path \in Guarded => section[Caller] = "in"
    BY <1>0, <2>1 DEF LockHeld, Using
  <2>4. path \in Guarded => TransferRight(xfer, data, fate[path]) /\ FileRight(data, fate[path])
    BY DEF Right, XferRight, FilesRight
  <2> QED BY <2>1, <2>2, <2>3, <2>4 DEF TransferRight
<1>3. ASSUME UNCHANGED <<node, fate>>, xfer' = NoTransfer \/ (xfer'.path = path /\ xfer'.file = xfer.file /\ xfer'.fn = xfer.fn /\ xfer'.received = xfer.received)
      PROVE  Right'
  <2>1. NoTransfer.file = FALSE
    BY DEF NoTransfer
  <2>2. \A f \in Guarded : xfer'.path = f => TransferRight(xfer', node[f].data, fate[f])
    BY <1>3, <2>1 DEF Right, XferRight, TransferRight
  <2>3. {} \in SUBSET Files
    OBVIOUS
  <2> QED BY <1>0, <1>1, <1>3, <2>2, <2>3, TransferRightKept
(* The transfer ends and leaves something of the remote file.              *)
<1>4. ASSUME xfer.fn \in Downloads, xfer.pc # "over", xfer' = NoTransfer,
             \A f \in Guarded \ {path} : node'[f] = node[f] /\ fate'[f] = fate[f],
             path \in Guarded => FileRight(node'[path].data, fate'[path])
      PROVE  Right'
  <2>1. NoTransfer.file = FALSE
    BY DEF NoTransfer
  <2>2. \A f \in Guarded : TransferRight(xfer', node'[f].data, fate'[f])
    BY <1>4, <2>1 DEF TransferRight
  <2>3. {path} \in SUBSET Files /\ (path \in Guarded => section[Caller] = "in")
    BY <1>2, <1>4
  <2> HIDE DEF path, data
  <2> QED BY <1>0, <1>1, <1>4, <2>2, <2>3, TransferRightKept
<1>5. ASSUME Leave, NEW ret, Told(ret), node' = node, xfer.pc # "over",
             ret = OK => xfer.pc = "perform" /\ (xfer.fn \in Downloads => Len(Remote) <= Len(xfer.received))
      PROVE  Right'
  <2>1. CASE xfer.fn \in Downloads
    <3>1. fate' = [fate EXCEPT ![path] = IF ret = OK THEN "whole" ELSE "failed"] /\ xfer' = NoTransfer
      BY <1>5, <2>1 DEF Told, Leave
    <3>2. /\ fate'[path] = IF ret = OK THEN "whole" ELSE "failed"
          /\ \A f \in Guarded \ {path} : fate'[f] = fate[f]
      BY <1>0, <1>1, <1>2, <1>5, <2>1, <3>1
    <3>3. path \in Guarded /\ ret = OK => data = Remote
      <4> HIDE DEF data, path
      <4> QED BY <1>0, <1>2, <1>5, <2>1, BeginsAll
    <3>4. path \in Guarded => FileRight(data, fate'[path])
      BY <1>0, <1>2, <1>5, <2>1, <3>2, <3>3 DEF FileRight
    <3> QED BY <1>4, <1>5, <2>1, <3>1, <3>2, <3>4
  <2>2. CASE xfer.fn \notin Downloads
    BY <1>3, <1>5, <2>2 DEF Told, Leave
  <2> QED BY <2>1, <2>2
<1>6. CASE HandleFails
  <2>1. -1 # OK
    BY DEF OK
  <2> QED BY <1>5, <1>6, <2>1 DEF HandleFails
<1>7. CASE HandleReady \/ OptionsSet
  <2>1. xfer'.path = path /\ xfer'.file = xfer.file /\ xfer'.fn = xfer.fn /\ xfer'.received = xfer.received
    BY <1>0, <1>7 DEF HandleReady, OptionsSet, Xfer
  <2> QED BY <1>3, <1>7, <2>1 DEF HandleReady, OptionsSet, filesVars
<1>8. CASE OptionsFail
  <2>1. PICK ret \in {-2, -3} : Leave /\ Told(ret)
    BY <1>8 DEF OptionsFail
  <2>2. ret # OK
    BY <2>1 DEF OK
  <2> QED BY <1>5, <1>8, <2>1, <2>2 DEF OptionsFail
<1>9. ASSUME NEW k \in Keys, NEW v \in Values, Header(k, v) PROVE Right'
  <2>1. xfer'.path = path /\ xfer'.file = xfer.file /\ xfer'.fn = xfer.fn /\ xfer'.received = xfer.received
    BY <1>0, <1>9 DEF Header, Xfer
  <2> QED BY <1>3, <1>9, <2>1 DEF Header, filesVars
<1>10. ASSUME NEW ret, NEW c, RequestReturns(ret, c) PROVE Right'
  BY <1>3, <1>10 DEF RequestReturns, Leave
<1>11. ASSUME NEW ret, FileReturns(ret) PROVE Right'
  <2>1. xfer.fn \in Downloads => Source = Remote
    BY DEF Source, Downloads, Uploads
  <2>2. xfer.pc = "perform" /\ (ret = OK /\ xfer.fn \in Downloads => Len(Remote) <= Len(xfer.received))
    BY <1>0, <1>11, <2>1, LenProperties DEF FileReturns, Ends
  <2> QED BY <1>5, <1>11, <2>2 DEF FileReturns
<1>12. CASE FlushFails
  <2>1. /\ xfer.fn \in Downloads /\ xfer.pc = "perform" /\ xfer' = NoTransfer
        /\ node' = [node EXCEPT ![path].data = SubSeq(data, 1, Len(data) - 1)]
        /\ fate' = [fate EXCEPT ![path] = "disk full"]
    BY <1>12 DEF FlushFails, Leave
  <2>2. /\ path \in Files /\ data \in Seq(Nat) /\ node[path] \in Node
    BY <1>0, <1>2, <2>1
  <2>3. /\ node'[path].data = SubSeq(data, 1, Len(data) - 1) /\ fate'[path] = "disk full"
        /\ \A f \in Guarded \ {path} : node'[f] = node[f] /\ fate'[f] = fate[f]
    <3> HIDE DEF data, path
    <3>1. PICK less : less = SubSeq(data, 1, Len(data) - 1)
      OBVIOUS
    <3> QED BY <1>0, <1>1, <2>1, <2>2, <3>1 DEF Node
  <2>4. Begins(SubSeq(data, 1, Len(data) - 1), data) /\ SubSeq(data, 1, Len(data) - 1) \in Seq(Nat)
    <3> HIDE DEF data
    <3>1. CASE data = <<>>
      <4>1. SubSeq(data, 1, Len(data) - 1) = <<>>
        BY <3>1
      <4>2. <<>> \in Seq(Nat)
        OBVIOUS
      <4> QED BY <3>1, <4>1, <4>2, BeginsNothing
    <3>2. CASE data # <<>>
      <4>1. Len(data) - 1 \in Nat /\ Len(data) - 1 <= Len(data)
        BY <2>2, <3>2, LenProperties, EmptySeq
      <4> QED BY <2>2, <4>1, BeginsCut
    <3> QED BY <3>1, <3>2
  <2>5. path \in Guarded => BeginsWhole(SubSeq(data, 1, Len(data) - 1))
    <3> HIDE DEF data, path
    <3>1. ASSUME path \in Guarded PROVE Begins(SubSeq(data, 1, Len(data) - 1), Remote)
      BY <1>0, <1>2, <2>1, <2>2, <2>4, <3>1, BeginsBoth
    <3> QED BY <1>0, <3>1 DEF BeginsWhole
  <2> HIDE DEF path, data
  <2> QED BY <1>4, <2>1, <2>3, <2>5 DEF FileRight
<1>13. CASE Block
  <2>1. CASE xfer.fn \in Downloads
    <3> DEFINE k == Len(xfer.received) + 1
               new == Written(data, k, Remote[k])
               longer == Append(xfer.received, Remote[k])
    <3>0. /\ Len(xfer.received) \in Nat /\ k \in Nat \ {0} /\ k \in 1 .. Len(Remote) /\ Len(xfer.received) < Len(Remote)
          /\ path \in Files /\ data \in Seq(Nat) /\ xfer.pc = "perform" /\ node[path] \in Node
          /\ (path \in Guarded => section[Caller] = "in")
      BY <1>0, <1>2, <1>13, <2>1, LenProperties DEF Block, Source, Downloads, Uploads
    <3>1. /\ xfer' = [xfer EXCEPT !.received = longer] /\ fate' = fate
          /\ node' = [node EXCEPT ![path].data = new]
      BY <1>13, <2>1 DEF Block, Source, Downloads, Uploads
    <3>2. Remote[k] \in Nat
      <4> HIDE DEF k
      <4> QED BY <1>0, <3>0
    <3>3. /\ xfer'.path = path /\ xfer'.received = longer
          /\ node'[path].data = new
          /\ \A f \in Guarded \ {path} : node'[f] = node[f]
      <4> HIDE DEF new, longer
      <4> QED BY <1>0, <1>1, <3>0, <3>1 DEF Xfer, Node
    <3>4. Len(longer) = k
      <4>1. \A b \in Nat : Len(Append(xfer.received, b)) = Len(xfer.received) + 1
        BY <1>0, AppendProperties
      <4> QED BY <3>2, <4>1
    <3>5. ASSUME path \in Guarded
          PROVE  Len(new) = k /\ Begins(new, Remote)
      <4>1. Len(data) = Len(xfer.received) /\ Begins(data, Remote)
        BY <1>2, <2>1, <3>0, <3>5
      <4>2. /\ new \in Seq(Nat) /\ Len(new) = k
            /\ \A j \in 1 .. Len(new) : new[j] = IF j = k THEN Remote[k] ELSE IF j <= Len(data) THEN data[j] ELSE NUL
        <5>1. ~(k <= Len(data))
          BY <3>0, <4>1
        <5> HIDE DEF k, data
        <5> QED BY <3>0, <3>2, <5>1, WrittenSeq
      <4>3. /\ Len(new) = Len(data) + 1 /\ new[Len(data) + 1] = Remote[Len(data) + 1]
            /\ \A j \in 1 .. Len(data) : new[j] = data[j]
        <5>1. Len(data) \in Nat /\ k = Len(data) + 1
          BY <3>0, <4>1
        <5> HIDE DEF new, data, k
        <5>2. /\ Len(new) = Len(data) + 1 /\ k \in 1 .. Len(new)
              /\ \A j \in 1 .. Len(data) : j \in 1 .. Len(new) /\ j # k /\ j <= Len(data)
          BY <4>2, <5>1
        <5> QED BY <4>2, <5>1, <5>2
      <4> HIDE DEF new, data
      <4> QED BY <1>0, <3>0, <4>1, <4>2, <4>3, BeginsLonger
    <3>6. path \in Guarded => fate[path] # "whole"
      BY <1>2, <2>1, <3>0
    <3>7. path \in Guarded => /\ FileRight(node'[path].data, fate'[path])
                             /\ TransferRight(xfer', node'[path].data, fate'[path])
      <4> HIDE DEF new, longer, k, path, data
      <4> QED BY <1>0, <3>1, <3>3, <3>4, <3>5, <3>6 DEF FileRight, TransferRight, BeginsWhole
    <3>8. PICK X \in SUBSET Files : X = {path}
      BY <3>0
    <3> HIDE DEF new, longer, k, path, data
    <3>9. /\ \A f \in X \intersect Guarded : section[Caller] = "in"
          /\ \A f \in X \intersect Guarded : FileRight(node'[f].data, fate'[f])
          /\ \A f \in Guarded : xfer'.path = f => TransferRight(xfer', node'[f].data, fate'[f])
          /\ \A f \in Guarded \ X : /\ node'[f].data = node[f].data
                                    /\ fate'[f] = "whole" => fate[f] = "whole"
      BY <3>0, <3>1, <3>3, <3>7, <3>8
    <3>10. call' = call /\ call[Caller].pc = "over"
      BY <1>0, <1>1
    <3> QED BY <3>9, <3>10, TransferRightKept
  <2>2. CASE xfer.fn \notin Downloads
    <3>1. /\ xfer' = [xfer EXCEPT !.received = Append(@, Source[Len(xfer.received) + 1])]
          /\ UNCHANGED <<node, fate>>
      BY <1>13, <2>2 DEF Block
    <3>2. \A f \in Guarded : TransferRight(xfer', node'[f].data, fate'[f])
      BY <1>0, <2>2, <3>1 DEF TransferRight, Xfer
    <3>3. {} \in SUBSET Files
      OBVIOUS
    <3> QED BY <1>0, <1>1, <3>1, <3>2, <3>3, TransferRightKept
  <2> QED BY <2>1, <2>2
<1> QED BY <1>6, <1>7, <1>8, <1>9, <1>10, <1>11, <1>12, <1>13 DEF TransferStep

LEMMA NextRight ==
  ASSUME Sound, LockHeld, Right, [Next]_vars
  PROVE  Right'
<1>1. ASSUME NEW p \in Procs, ~Busy(p), UNCHANGED <<netVars, serviceVars, mix>>,
             \/ Reads(p) \/ Writes(p) \/ Unzips(p) \/ FileStep(p)
             \/ LockOpens(p) \/ FlockFails(p) \/ Flock(p) \/ FuncReturns(p) \/ FuncThrows(p)
      PROVE  Right'
  <2>1. xfer' = xfer
    BY <1>1 DEF netVars
  <2>2. CASE LockOpens(p) \/ FlockFails(p) \/ Flock(p) \/ FuncReturns(p) \/ FuncThrows(p)
    <3>1. UNCHANGED <<node, call, fate>>
      BY <2>2 DEF LockOpens, FlockFails, Flock, FuncReturns, FuncThrows
    <3> QED BY <2>1, <3>1, NothingDone
  <2> QED BY <1>1, <2>1, <2>2, CallBeginsRight, FileStepRight
<1>2. ASSUME NEW fn \in Requests, Request(fn) PROVE Right'
  <2>1. xfer'.file = FALSE
    BY <1>2 DEF Request, Transfer, NoTransfer
  <2> QED BY <1>2, <2>1, NothingDone DEF Request, filesVars
<1>3. CASE Serves
  <2>1. UNCHANGED <<call, fate, xfer>> /\ (node' = node \/ node' = [node EXCEPT ![LogDir] = Directory])
    BY <1>3 DEF Serves, ServiceNext, Launch, TestLogDir, Mkdirs, MkdirsFails, Start, AskedToQuit,
                Answer, filesVars, netVars
  <2>2. \A f \in Files : node'[f] = node[f]
    BY <2>1, ServiceAssumption, FilesAssumption DEF Sound, FilesTyped
  <2> QED BY <2>1, <2>2, NothingDone
<1>4. CASE UNCHANGED vars
  BY <1>4, NothingDone DEF vars, filesVars, netVars
<1> QED BY <1>1, <1>2, <1>3, <1>4, KillRight, TransferBeginsRight, TransferStepRight, Steps

----------------------------------------------------------------------------
(* The buffers of the caller *)

Answer1 == [fn : Requests, received : Seq(Nat), got : [Keys -> Values \union {0}],
            ret : CurlErrors \union {OK}, code : Codes]

(* The parts of BuffersHoldAnswers, of any answers.                        *)
LastPost(as)      == LastOf({k \in DOMAIN as : as[k].fn = "post"})
LastGood(as)      == LastOf({k \in DOMAIN as : as[k].ret = OK})
LastWith(as, key) == LastOf({k \in DOMAIN as : as[k].got[key] # 0})
Added(as, n)      == [k \in DOMAIN as |->
                        IF k > n /\ as[k].fn \in Appending THEN as[k].received ELSE <<>>]
Running == IF xfer.pc = "perform" /\ xfer.fn \in Appending THEN xfer.received ELSE <<>>
Body(as) == (IF LastPost(as) = 0 THEN <<>> ELSE as[LastPost(as)].received)
            \o FlattenSeq(Added(as, LastPost(as)))
CodeTold    == code = IF LastGood(answers) = 0 THEN 0 ELSE answers[LastGood(answers)].code
HeadersTold == \A key \in Keys :
  headers[key] = IF LastWith(answers, key) = 0 THEN 0 ELSE answers[LastWith(answers, key)].got[key]
BuffersTyped == answers \in Seq(Answer1) /\ buf \in Seq(Nat) /\ headers \in [Keys -> Values \union {0}]
BuffersInv == BuffersTyped /\ buf = Body(answers) \o Running /\ CodeTold /\ HeadersTold

LEMMA LastOfSome ==
  ASSUME NEW n \in Nat, NEW T \in SUBSET (1 .. n), T # {}
  PROVE  LastOf(T) \in T /\ \A j \in T : j <= LastOf(T)
<1> DEFINE Below == {n - k : k \in T}
<1>1. Below \in SUBSET Nat /\ Below # {}
  <2>1. \A k \in T : k \in 1 .. n /\ n - k \in Nat
    OBVIOUS
  <2> QED BY <2>1
<1>2. PICK x \in Below : \A y \in Below : x <= y
  <2> HIDE DEF Below
  <2> QED BY <1>1, LeastElement
<1>3. PICK k \in T : x = n - k
  BY <1>2
<1>4. \A j \in T : j <= k
  <2> TAKE j \in T
  <2>1. j \in 1 .. n /\ k \in 1 .. n
    OBVIOUS
  <2>2. x <= n - j
    BY <1>2
  <2> HIDE DEF Below
  <2> QED BY <1>3, <2>1, <2>2
<1> QED BY <1>3, <1>4 DEF LastOf

LEMMA LastOfIn ==
  ASSUME NEW n \in Nat, NEW T \in SUBSET (1 .. n)
  PROVE  LastOf(T) \in 0 .. n /\ (LastOf(T) # 0 => LastOf(T) \in T)
<1>1. CASE T = {}
  <2>1. LastOf(T) = 0
    BY <1>1 DEF LastOf
  <2> QED BY <2>1
<1>2. CASE T # {}
  <2>1. PICK l \in T : l = LastOf(T)
    BY <1>2, LastOfSome
  <2>2. l \in 1 .. n
    OBVIOUS
  <2> QED BY <2>1, <2>2
<1> QED BY <1>1, <1>2

LEMMA LastOfNew ==
  ASSUME NEW n \in Nat, NEW T \in SUBSET (1 .. n)
  PROVE  LastOf(T \union {n + 1}) = n + 1
<1>1. T \union {n + 1} \in SUBSET (1 .. n + 1)
  OBVIOUS
<1>2. LastOf(T \union {n + 1}) \in T \union {n + 1} /\ \A j \in T \union {n + 1} : j <= LastOf(T \union {n + 1})
  <2>1. PICK m \in Nat : m = n + 1
    OBVIOUS
  <2>2. PICK U : U = T \union {n + 1}
    OBVIOUS
  <2>3. U \in SUBSET (1 .. m) /\ U # {}
    BY <1>1, <2>1, <2>2
  <2> QED BY <2>1, <2>2, <2>3, LastOfSome
<1>3. PICK l \in T \union {n + 1} : l = LastOf(T \union {n + 1}) /\ n + 1 <= l
  BY <1>2
<1>4. l \in T => l \in 1 .. n
  OBVIOUS
<1> QED BY <1>3, <1>4

LEMMA OneMore ==
  ASSUME NEW n \in Nat
  PROVE  1 .. n + 1 = (1 .. n) \union {n + 1} /\ n + 1 \notin 1 .. n
OBVIOUS

(* What is last after one more answer.                                     *)
OneAnswerMore(as, more, n) ==
  n \in Nat /\ DOMAIN as = 1 .. n /\ DOMAIN more = 1 .. n + 1 /\ \A k \in 1 .. n : more[k] = as[k]
LEMMA LastAnswers ==
  ASSUME NEW as, NEW more, NEW n, OneAnswerMore(as, more, n)
  PROVE  /\ LastPost(more) = IF more[n + 1].fn = "post" THEN n + 1 ELSE LastPost(as)
         /\ LastGood(more) = IF more[n + 1].ret = OK THEN n + 1 ELSE LastGood(as)
         /\ \A key : LastWith(more, key) = IF more[n + 1].got[key] # 0 THEN n + 1 ELSE LastWith(as, key)
         /\ LastPost(as) \in 0 .. n /\ LastGood(as) \in 0 .. n
         /\ \A key : LastWith(as, key) \in 0 .. n
<1>0. n \in Nat /\ DOMAIN as = 1 .. n /\ DOMAIN more = 1 .. n + 1 /\ \A k \in 1 .. n : more[k] = as[k]
  BY DEF OneAnswerMore
<1>1. ASSUME NEW T \in SUBSET (1 .. n), NEW U, U = T \/ U = T \union {n + 1}, NEW b \in BOOLEAN,
             n + 1 \in U <=> b
      PROVE  LastOf(U) = (IF b THEN n + 1 ELSE LastOf(T)) /\ LastOf(T) \in 0 .. n
  <2>1. LastOf(T) \in 0 .. n
    BY <1>0, LastOfIn
  <2>2. CASE U = T
    BY <1>0, <1>1, <2>1, <2>2
  <2>3. CASE U = T \union {n + 1}
    BY <1>0, <1>1, <2>1, <2>3, LastOfNew
  <2> QED BY <1>1, <2>2, <2>3
<1>2. LastPost(more) = (IF more[n + 1].fn = "post" THEN n + 1 ELSE LastPost(as)) /\ LastPost(as) \in 0 .. n
  <2> DEFINE T == {k \in DOMAIN as : as[k].fn = "post"}
             U == {k \in DOMAIN more : more[k].fn = "post"}
  <2>1. T \in SUBSET (1 .. n) /\ (U = T \/ U = T \union {n + 1}) /\ (n + 1 \in U <=> more[n + 1].fn = "post")
    <3>1. \A k \in 1 .. n : more[k] = as[k] /\ k # n + 1
      BY <1>0, OneMore
    <3>2. \A k : k \in DOMAIN more <=> k \in 1 .. n \/ k = n + 1
      BY <1>0, OneMore
    <3>3. \A k \in U : k \in T \/ k = n + 1
      BY <1>0, <3>1, <3>2
    <3>4. \A k \in T : k \in U /\ k \in 1 .. n
      BY <1>0, <3>1, <3>2
    <3> QED BY <3>1, <3>2, <3>3, <3>4
  <2> HIDE DEF T, U
  <2> QED BY <1>1, <2>1 DEF T, U, LastPost
<1>3. LastGood(more) = (IF more[n + 1].ret = OK THEN n + 1 ELSE LastGood(as)) /\ LastGood(as) \in 0 .. n
  <2> DEFINE T == {k \in DOMAIN as : as[k].ret = OK}
             U == {k \in DOMAIN more : more[k].ret = OK}
  <2>1. T \in SUBSET (1 .. n) /\ (U = T \/ U = T \union {n + 1}) /\ (n + 1 \in U <=> more[n + 1].ret = OK)
    <3>1. \A k \in 1 .. n : more[k] = as[k] /\ k # n + 1
      BY <1>0, OneMore
    <3>2. \A k : k \in DOMAIN more <=> k \in 1 .. n \/ k = n + 1
      BY <1>0, OneMore
    <3>3. \A k \in U : k \in T \/ k = n + 1
      BY <1>0, <3>1, <3>2
    <3>4. \A k \in T : k \in U /\ k \in 1 .. n
      BY <1>0, <3>1, <3>2
    <3> QED BY <3>1, <3>2, <3>3, <3>4
  <2> HIDE DEF T, U
  <2> QED BY <1>1, <2>1 DEF T, U, LastGood
<1>4. ASSUME NEW key
      PROVE  /\ LastWith(more, key) = IF more[n + 1].got[key] # 0 THEN n + 1 ELSE LastWith(as, key)
             /\ LastWith(as, key) \in 0 .. n
  <2> DEFINE T == {k \in DOMAIN as : as[k].got[key] # 0}
             U == {k \in DOMAIN more : more[k].got[key] # 0}
  <2>1. T \in SUBSET (1 .. n) /\ (U = T \/ U = T \union {n + 1}) /\ (n + 1 \in U <=> more[n + 1].got[key] # 0)
    <3>1. \A k \in 1 .. n : more[k] = as[k] /\ k # n + 1
      BY <1>0, OneMore
    <3>2. \A k : k \in DOMAIN more <=> k \in 1 .. n \/ k = n + 1
      BY <1>0, OneMore
    <3>3. \A k \in U : k \in T \/ k = n + 1
      BY <1>0, <3>1, <3>2
    <3>4. \A k \in T : k \in U /\ k \in 1 .. n
      BY <1>0, <3>1, <3>2
    <3> QED BY <3>1, <3>2, <3>3, <3>4
  <2> HIDE DEF T, U
  <2> QED BY <1>1, <2>1 DEF T, U, LastWith
<1> QED BY <1>2, <1>3, <1>4

LEMMA BuffersFollow == BuffersInv => BuffersHoldAnswers
<1> SUFFICES ASSUME BuffersInv PROVE BuffersHoldAnswers
  OBVIOUS
<1>1. \A n : [k \in DOMAIN answers |-> IF k \in Since(n) THEN answers[k].received ELSE <<>>]
             = Added(answers, n)
  BY DEF Since, Added
<1>2. buf = ((IF LastPost(answers) = 0 THEN <<>> ELSE answers[LastPost(answers)].received)
             \o FlattenSeq(Added(answers, LastPost(answers)))) \o Running
  BY DEF BuffersInv, Body
<1>3. CodeTold /\ HeadersTold
  BY DEF BuffersInv
<1> QED BY <1>1, <1>2, <1>3 DEF BuffersHoldAnswers, LastPost, LastGood, LastWith, Running, CodeTold, HeadersTold

LEMMA Associates == \A r, t, u \in Seq(Nat) : (r \o t) \o u = r \o (t \o u)
BY JoinAssociates, SMTT(60)

LEMMA IsAppend ==
  ASSUME NEW S, NEW ss \in Seq(S), NEW tt \in Seq(S), NEW s \in S,
         Len(tt) = Len(ss) + 1, \A k \in 1 .. Len(ss) : tt[k] = ss[k], tt[Len(ss) + 1] = s
  PROVE  tt = Append(ss, s)
<1>1. PICK uu : uu = Append(ss, s)
  OBVIOUS
<1>2. /\ uu \in Seq(S) /\ Len(uu) = Len(ss) + 1 /\ uu[Len(ss) + 1] = s
      /\ \A k \in 1 .. Len(ss) : uu[k] = ss[k]
  BY <1>1, AppendProperties
<1>3. \A k \in 1 .. Len(tt) : tt[k] = uu[k]
  <2> TAKE k \in 1 .. Len(tt)
  <2>1. Len(ss) \in Nat
    BY LenProperties
  <2>2. k \in 1 .. Len(ss) \/ k = Len(ss) + 1
    BY <2>1
  <2> QED BY <1>2, <2>2
<1>4. tt = uu
  BY <1>2, <1>3, SeqEqual
<1> QED BY <1>1, <1>4

LEMMA AnswersTyped ==
  ASSUME BuffersTyped
  PROVE  /\ DOMAIN answers = 1 .. Len(answers) /\ Len(answers) \in Nat
         /\ \A k \in DOMAIN answers : answers[k] \in Answer1
BY LenProperties DEF BuffersTyped

LEMMA AddedTyped ==
  ASSUME NEW as \in Seq(Answer1), NEW n \in Nat
  PROVE  Added(as, n) \in Seq(Seq(Nat)) /\ Len(Added(as, n)) = Len(as)
<1>1. DOMAIN as = 1 .. Len(as) /\ Len(as) \in Nat /\ \A k \in DOMAIN as : as[k].received \in Seq(Nat)
  <2>1. DOMAIN as = 1 .. Len(as) /\ Len(as) \in Nat /\ \A k \in DOMAIN as : as[k] \in Answer1
    BY LenProperties
  <2> QED BY <2>1 DEF Answer1
<1>2. Added(as, n) \in [1 .. Len(as) -> Seq(Nat)]
  <2>1. <<>> \in Seq(Nat)
    OBVIOUS
  <2> QED BY <1>1, <2>1 DEF Added
<1>3. PICK m \in Nat : \E z \in [1 .. m -> Seq(Nat)] : m = Len(as) /\ z = Added(as, n)
  BY <1>1, <1>2
<1>4. \A z \in [1 .. m -> Seq(Nat)] : z \in Seq(Seq(Nat)) /\ Len(z) = m
  OBVIOUS
<1> QED BY <1>3, <1>4

LEMMA BodyTyped ==
  ASSUME BuffersTyped
  PROVE  /\ Body(answers) \in Seq(Nat) /\ LastPost(answers) \in 0 .. Len(answers)
         /\ LastPost(answers) # 0 => answers[LastPost(answers)].received \in Seq(Nat)
<1> DEFINE last == LastPost(answers)
           T == {k \in DOMAIN answers : answers[k].fn = "post"}
<1>1. T \in SUBSET (1 .. Len(answers)) /\ Len(answers) \in Nat
  BY AnswersTyped
<1>2. last \in 0 .. Len(answers) /\ last \in Nat
  <2>1. last \in 0 .. Len(answers)
    <3> HIDE DEF T
    <3> QED BY <1>1, LastOfIn DEF T, LastPost
  <2> HIDE DEF last
  <2> QED BY <1>1, <2>1
<1>3. last # 0 => answers[last].received \in Seq(Nat)
  <2> HIDE DEF last
  <2>1. last # 0 => last \in 1 .. Len(answers)
    BY <1>1, <1>2
  <2> QED BY <2>1, AnswersTyped DEF Answer1
<1>4. FlattenSeq(Added(answers, last)) \in Seq(Nat)
  <2> HIDE DEF last
  <2>1. Added(answers, last) \in Seq(Seq(Nat))
    BY <1>2, AddedTyped DEF BuffersTyped
  <2> QED BY <2>1, FlattenTyped
<1>5. <<>> \in Seq(Nat)
  OBVIOUS
<1>6. \A s, t \in Seq(Nat) : s \o t \in Seq(Nat)
  BY ConcatProperties
<1> HIDE DEF last
<1> QED BY <1>2, <1>3, <1>4, <1>5, <1>6 DEF Body, last

(* One more answer a: a post begins anew, the others add to what is there. *)
LEMMA BodyGrows ==
  ASSUME BuffersTyped, NEW a \in Answer1, NEW n, n = Len(answers), NEW more \in Seq(Answer1),
         Len(more) = n + 1, OneAnswerMore(answers, more, n), more[n + 1] = a
  PROVE  Body(more) = IF a.fn = "post" THEN a.received
                      ELSE IF a.fn \in Appending THEN Body(answers) \o a.received ELSE Body(answers)
<1> DEFINE last == LastPost(answers)
<1>0. /\ n \in Nat /\ last \in 0 .. n /\ last \in Nat /\ n + 1 \in Nat /\ answers \in Seq(Answer1)
      /\ (last # 0 => answers[last].received \in Seq(Nat))
      /\ a.received \in Seq(Nat)
  BY AnswersTyped, BodyTyped DEF BuffersTyped, Answer1
<1>1. /\ DOMAIN more = 1 .. n + 1 /\ DOMAIN answers = 1 .. n
      /\ \A k \in 1 .. n : more[k] = answers[k]
  BY DEF OneAnswerMore
<1>2. LastPost(more) = IF a.fn = "post" THEN n + 1 ELSE last
  BY LastAnswers
<1>3. \A s \in Seq(Nat) : s \o <<>> = s /\ <<>> \o s = s
  BY ConcatEmptySeq
<1>4. CASE a.fn = "post"
  <2> DEFINE ss == Added(more, n + 1)
  <2>1. ss \in Seq(Seq(Nat)) /\ Len(ss) = n + 1
    <3> QED BY <1>0, <1>1, AddedTyped
  <2>2. \A k \in 1 .. Len(ss) : ss[k] = <<>>
    <3> TAKE k \in 1 .. Len(ss)
    <3>1. k \in DOMAIN more /\ ~(k > n + 1)
      BY <1>0, <1>1, <2>1
    <3> QED BY <3>1 DEF Added
  <2>3. FlattenSeq(ss) = <<>>
    <3> HIDE DEF ss
    <3> QED BY <2>1, <2>2, FlattenNothing
  <2>4. LastPost(more) = n + 1 /\ n + 1 # 0
    BY <1>0, <1>2, <1>4
  <2>5. Body(more) = a.received \o <<>>
    <3> QED BY <1>1, <2>3, <2>4 DEF Body
  <2> QED BY <1>0, <1>3, <1>4, <2>5
<1>5. CASE a.fn # "post"
  <2> DEFINE ss == Added(answers, last)
             tt == Added(more, last)
             new == IF a.fn \in Appending THEN a.received ELSE <<>>
             begin == IF last = 0 THEN <<>> ELSE answers[last].received
  <2>0. <<>> \in Seq(Nat)
    OBVIOUS
  <2>1. ss \in Seq(Seq(Nat)) /\ Len(ss) = n /\ tt \in Seq(Seq(Nat)) /\ Len(tt) = n + 1
    <3> HIDE DEF last
    <3> QED BY <1>0, <1>1, AddedTyped
  <2>2. new \in Seq(Nat) /\ begin \in Seq(Nat)
    <3> HIDE DEF last
    <3> QED BY <1>0, <2>0
  <2>3. \A k \in 1 .. n : tt[k] = ss[k]
    <3> TAKE k \in 1 .. n
    <3>1. k \in DOMAIN more /\ k \in DOMAIN answers /\ more[k] = answers[k]
      BY <1>0, <1>1
    <3> QED BY <3>1 DEF Added
  <2>4. tt[n + 1] = new
    <3>1. n + 1 \in DOMAIN more /\ n + 1 > last
      <4> HIDE DEF last
      <4> QED BY <1>0, <1>1
    <3> HIDE DEF last
    <3> QED BY <1>1, <3>1 DEF Added
  <2> HIDE DEF ss, tt, new, begin, last
  <2>5. tt = Append(ss, new)
    BY <1>0, <2>1, <2>2, <2>3, <2>4, IsAppend
  <2>6. FlattenSeq(tt) = FlattenSeq(ss) \o new /\ FlattenSeq(ss) \in Seq(Nat)
    BY <2>1, <2>2, <2>5, FlattenAppend, FlattenTyped
  <2>7. LastPost(more) = last /\ (last # 0 => more[last] = answers[last])
    BY <1>0, <1>1, <1>2, <1>5
  <2>8. Body(more) = begin \o FlattenSeq(tt) /\ Body(answers) = begin \o FlattenSeq(ss)
    BY <2>7 DEF Body, begin, tt, ss, last
  <2>9. begin \o (FlattenSeq(ss) \o new) = (begin \o FlattenSeq(ss)) \o new
    BY <2>2, <2>6, Associates
  <2>10. Body(answers) \in Seq(Nat)
    BY BodyTyped
  <2> QED BY <1>3, <1>5, <2>6, <2>8, <2>9, <2>10 DEF new
<1> QED BY <1>4, <1>5

(* No answers yet, or none any more.                                       *)
LEMMA NothingHeld ==
  /\ Body(<<>>) \o <<>> = <<>> /\ LastGood(<<>>) = 0 /\ \A key : LastWith(<<>>, key) = 0
  /\ <<>> \in Seq(Answer1) /\ <<>> \in Seq(Nat) /\ NoHeaders \in [Keys -> Values \union {0}]
<1>1. DOMAIN <<>> = {} /\ <<>> \in Seq(Answer1) /\ <<>> \in Seq(Nat)
  OBVIOUS
<1>2. LastOf({}) = 0
  BY DEF LastOf
<1>3. LastPost(<<>>) = 0 /\ LastGood(<<>>) = 0 /\ \A key : LastWith(<<>>, key) = 0
  BY <1>1, <1>2 DEF LastPost, LastGood, LastWith
<1>4. Added(<<>>, 0) = <<>>
  BY <1>1 DEF Added
<1>5. Body(<<>>) = <<>> \o <<>>
  BY <1>3, <1>4, FlattenEmpty DEF Body
<1>6. <<>> \o <<>> = <<>> /\ (<<>> \o <<>>) \o <<>> = <<>>
  BY <1>1, ConcatEmptySeq
<1> QED BY <1>1, <1>3, <1>5, <1>6 DEF NoHeaders

LEMMA InitBuffers == Init => BuffersInv
<1> SUFFICES ASSUME Init PROVE BuffersInv
  OBVIOUS
<1>1. Running = <<>>
  <2>1. NoTransfer.pc = "over"
    BY DEF NoTransfer
  <2> QED BY <2>1 DEF Init, NetInit, Running
<1>2. answers = <<>> /\ buf = <<>> /\ code = 0 /\ headers = NoHeaders
  BY DEF Init, NetInit
<1>3. CodeTold /\ HeadersTold
  BY <1>2, NothingHeld DEF CodeTold, HeadersTold, NoHeaders
<1> QED BY <1>1, <1>2, <1>3, NothingHeld DEF BuffersInv, BuffersTyped

LEMMA RunningTyped == Sound => Running \in Seq(Nat) /\ xfer.received \in Seq(Nat)
<1>1. <<>> \in Seq(Nat)
  BY SMTT(40)
<1> QED BY <1>1 DEF Sound, TransferSound, Xfer, Running

LEMMA BuffersKept ==
  ASSUME BuffersInv, UNCHANGED buffers, Running' = Running
  PROVE  BuffersInv'
BY DEF BuffersInv, buffers, BuffersTyped, Body, CodeTold, HeadersTold, LastPost, LastGood, LastWith, Added

(* Half an answer that was not for a buffer, or not for long.              *)
LEMMA NotRunning ==
  ASSUME Sound, BuffersInv, UNCHANGED buffers,
         xfer.pc # "perform" \/ xfer.fn \notin Requests,
         xfer'.pc # "perform" \/ xfer'.fn \notin Requests \/ xfer'.received = <<>>
  PROVE  BuffersInv'
<1>1. Running = <<>> /\ Running' = <<>>
  BY DEF Running, Appending, Requests
<1> QED BY <1>1, BuffersKept

LEMMA BlockBuffers ==
  ASSUME Sound, BuffersInv, Block
  PROVE  BuffersInv'
<1> DEFINE b == Source[Len(xfer.received) + 1]
<1>1. /\ xfer.pc = "perform" /\ Source \in Seq(Nat) /\ xfer.received \in Seq(Nat)
      /\ Len(xfer.received) < Len(Source)
  BY SourceTyped, RunningTyped DEF Block
<1>2. b \in Nat
  <2>1. Len(xfer.received) \in Nat /\ Len(xfer.received) + 1 \in 1 .. Len(Source)
    BY <1>1, LenProperties
  <2> QED BY <1>1, <2>1, SMTT(40)
<1>3. /\ xfer' = [xfer EXCEPT !.received = Append(xfer.received, b)]
      /\ buf' = IF xfer.fn \in Appending THEN Append(buf, b) ELSE buf
      /\ UNCHANGED <<lines, code, headers, answers>>
  BY DEF Block
<1> HIDE DEF b
<1>4. xfer'.pc = "perform" /\ xfer'.fn = xfer.fn /\ xfer'.received = Append(xfer.received, b)
  BY <1>1, <1>3 DEF Sound, TransferSound, Xfer
<1>5. CASE xfer.fn \in Appending
  <2>1. /\ Running = xfer.received /\ Running' = Append(xfer.received, b) /\ buf' = Append(buf, b)
        /\ buf = Body(answers) \o xfer.received /\ buf \in Seq(Nat) /\ Body(answers) \in Seq(Nat)
    BY <1>1, <1>3, <1>4, <1>5, BodyTyped DEF Running, BuffersInv, BuffersTyped
  <2>2. \A s, t \in Seq(Nat) : Append(s \o t, b) = s \o Append(t, b)
    <3> TAKE s, t \in Seq(Nat)
    <3>1. <<b>> \in Seq(Nat) /\ s \o t \in Seq(Nat)
      BY <1>2, ConcatProperties
    <3>2. Append(s \o t, b) = (s \o t) \o <<b>> /\ Append(t, b) = t \o <<b>>
      BY <1>2, <3>1, AppendIsConcat
    <3>3. (s \o t) \o <<b>> = s \o (t \o <<b>>)
      BY <3>1, Associates
    <3> QED BY <3>2, <3>3
  <2>3. buf' = Body(answers) \o Running'
    <3>1. Append(Body(answers) \o xfer.received, b) = Body(answers) \o Append(xfer.received, b)
      BY <1>1, <2>1, <2>2
    <3> QED BY <2>1, <3>1
  <2>4. buf' \in Seq(Nat)
    BY <1>2, <2>1, AppendProperties
  <2> QED BY <1>3, <2>3, <2>4
          DEF BuffersInv, BuffersTyped, Body, CodeTold, HeadersTold, LastPost, LastGood, LastWith, Added
<1>6. CASE xfer.fn \notin Appending
  <2>1. Running' = Running /\ UNCHANGED buffers
    BY <1>3, <1>4, <1>6 DEF Running, buffers
  <2> QED BY <2>1, BuffersKept
<1> QED BY <1>5, <1>6

LEMMA AnswerBuffers ==
  ASSUME Sound, BuffersInv, NEW ret \in CurlErrors \union {OK}, NEW c \in Codes, RequestReturns(ret, c)
  PROVE  BuffersInv'
<1> DEFINE a == [fn |-> xfer.fn, received |-> xfer.received, got |-> xfer.got, ret |-> ret, code |-> c]
<1>1. /\ xfer \in Xfer /\ xfer.fn \in Requests /\ xfer.pc = "perform"
      /\ xfer.received \in Seq(Nat) /\ xfer.got \in [Keys -> Values \union {0}]
  BY DEF Sound, TransferSound, Xfer, RequestReturns
<1>2. /\ a \in Answer1 /\ a.fn = xfer.fn /\ a.received = xfer.received /\ a.got = xfer.got
      /\ a.ret = ret /\ a.code = c
  BY <1>1 DEF Answer1
<1>3. /\ answers' = Append(answers, a) /\ HandOver(ret) /\ xfer' = NoTransfer
      /\ code' = (IF ret = OK THEN c ELSE code) /\ headers' = Merged(headers, xfer.got)
  BY DEF RequestReturns, Leave
<1> HIDE DEF a
<1>4. PICK n \in Nat : n = Len(answers) /\ DOMAIN answers = 1 .. n /\ answers \in Seq(Answer1)
  BY AnswersTyped DEF BuffersInv, BuffersTyped
<1>5. PICK more \in Seq(Answer1) : more = answers' /\ Len(more) = n + 1 /\ more[n + 1] = a
                                  /\ \A k \in 1 .. n : more[k] = answers[k]
  BY <1>2, <1>3, <1>4, AppendProperties
<1>6. OneAnswerMore(answers, more, n)
  <2>1. DOMAIN more = 1 .. n + 1
    BY <1>5, LenProperties
  <2> QED BY <1>4, <1>5, <2>1 DEF OneAnswerMore
<1>7. BuffersTyped
  BY DEF BuffersInv
<1>8. Body(more) = IF a.fn = "post" THEN a.received
                   ELSE IF a.fn \in Appending THEN Body(answers) \o a.received ELSE Body(answers)
  BY <1>2, <1>4, <1>5, <1>6, <1>7, BodyGrows
<1>9. Body(answers)' = Body(more) /\ Running' = <<>>
  <2>1. NoTransfer.pc = "over"
    BY DEF NoTransfer
  <2> QED BY <1>3, <1>5, <2>1 DEF Body, LastPost, Added, Running
<1>10. buf' = Body(more) /\ buf' \in Seq(Nat)
  <2>1. buf = Body(answers) \o Running /\ buf \in Seq(Nat) /\ Body(answers) \in Seq(Nat)
    BY <1>7, BodyTyped DEF BuffersInv, BuffersTyped
  <2>2. CASE xfer.fn = "post"
    BY <1>1, <1>2, <1>3, <1>8, <2>2 DEF HandOver
  <2>3. CASE xfer.fn \in Appending
    <3>1. Running = xfer.received /\ xfer.fn \notin {"post", "stream"}
      BY <1>1, <2>3 DEF Running, Appending
    <3> QED BY <1>2, <1>3, <1>8, <2>1, <2>3, <3>1 DEF HandOver
  <2>4. CASE xfer.fn = "stream"
    <3>1. Running = <<>> /\ xfer.fn \notin Appending
      BY <2>4 DEF Running, Appending
    <3>2. buf = Body(answers)
      BY <2>1, <3>1, ConcatEmptySeq
    <3> QED BY <1>2, <1>3, <1>8, <2>1, <2>4, <3>1, <3>2 DEF HandOver
  <2> QED BY <1>1, <2>2, <2>3, <2>4 DEF Requests, Appending
<1>11. headers' \in [Keys -> Values \union {0}]
  BY <1>1, <1>3, <1>7 DEF Merged, BuffersTyped
<1>12. BuffersTyped'
  BY <1>5, <1>10, <1>11 DEF BuffersTyped
<1>13. buf' = Body(answers)' \o Running'
  BY <1>9, <1>10, ConcatEmptySeq
<1>14. /\ LastGood(more) = IF ret = OK THEN n + 1 ELSE LastGood(answers)
       /\ LastGood(answers) \in 0 .. n
       /\ \A key : LastWith(more, key) = IF xfer.got[key] # 0 THEN n + 1 ELSE LastWith(answers, key)
       /\ \A key : LastWith(answers, key) \in 0 .. n
  BY <1>2, <1>5, <1>6, LastAnswers
<1>15. CodeTold'
  <2>1. CodeTold
    BY DEF BuffersInv
  <2>2. code' = IF LastGood(more) = 0 THEN 0 ELSE more[LastGood(more)].code
    <3>1. CASE ret = OK
      BY <1>2, <1>3, <1>5, <1>14, <3>1
    <3>2. CASE ret # OK
      <4>1. LastGood(more) = LastGood(answers) /\ (LastGood(answers) # 0 => LastGood(answers) \in 1 .. n)
        BY <1>14, <3>2
      <4> QED BY <1>3, <1>5, <2>1, <3>2, <4>1 DEF CodeTold
    <3> QED BY <3>1, <3>2
  <2> QED BY <1>5, <2>2 DEF CodeTold, LastGood
<1>16. HeadersTold'
  <2>1. HeadersTold
    BY DEF BuffersInv
  <2>2. ASSUME NEW key \in Keys
        PROVE  headers'[key] = IF LastWith(more, key) = 0 THEN 0 ELSE more[LastWith(more, key)].got[key]
    <3>0. headers'[key] = IF xfer.got[key] # 0 THEN xfer.got[key] ELSE headers[key]
      BY <1>3 DEF Merged
    <3>1. CASE xfer.got[key] # 0
      <4>1. LastWith(more, key) = n + 1 /\ n + 1 # 0
        BY <1>14, <3>1
      <4> QED BY <1>2, <1>5, <3>0, <3>1, <4>1
    <3>2. CASE xfer.got[key] = 0
      <4>1. LastWith(more, key) = LastWith(answers, key)
        BY <1>14, <3>2
      <4>2. LastWith(answers, key) # 0 => LastWith(answers, key) \in 1 .. n
        BY <1>14
      <4> QED BY <1>5, <2>1, <3>0, <3>2, <4>1, <4>2 DEF HeadersTold
    <3> QED BY <3>1, <3>2
  <2> QED BY <1>5, <2>2 DEF HeadersTold, LastWith
<1> QED BY <1>12, <1>13, <1>15, <1>16 DEF BuffersInv

LEMMA NextBuffers ==
  ASSUME Sound, BuffersInv, [Next]_vars
  PROVE  BuffersInv'
<1>1. ASSUME UNCHANGED netVars PROVE BuffersInv'
  BY <1>1, BuffersKept DEF netVars, buffers, Running
<1>2. ASSUME NEW p \in Procs, Kill(p) PROVE BuffersInv'
  <2>1. CASE p = Caller
    <3>1. NoTransfer.pc = "over"
      BY DEF NoTransfer
    <3>2. xfer' = NoTransfer /\ buf' = <<>> /\ code' = 0 /\ headers' = NoHeaders /\ answers' = <<>>
      BY <1>2, <2>1 DEF Kill, CallerKilled
    <3>3. Running' = <<>>
      BY <3>1, <3>2 DEF Running
    <3>4. CodeTold' /\ HeadersTold'
      BY <3>2, NothingHeld DEF CodeTold, HeadersTold, NoHeaders, LastGood, LastWith
    <3>5. buf' = Body(answers)' \o Running'
      BY <3>2, <3>3, NothingHeld DEF Body, LastPost, Added
    <3> QED BY <3>2, <3>4, <3>5, NothingHeld DEF BuffersInv, BuffersTyped
  <2> QED BY <1>1, <1>2, <2>1 DEF Kill
<1>3. ASSUME NEW fn \in Requests, Request(fn) PROVE BuffersInv'
  <2>1. xfer'.pc = "options" /\ xfer.pc = "over" /\ UNCHANGED buffers
    BY <1>3 DEF Request, Transfer, NoTransfer, CallerFree
  <2> QED BY <2>1, NotRunning
<1>4. ASSUME NEW fn, NEW f, OpenForTransfer(fn, f) PROVE BuffersInv'
  <2>1. xfer'.pc = "opened" /\ xfer.pc = "over" /\ UNCHANGED buffers
    BY <1>4 DEF OpenForTransfer, Transfer, NoTransfer, CallerFree
  <2> QED BY <2>1, NotRunning
<1>5. CASE TransferStep
  <2>0. xfer \in Xfer /\ NoTransfer.pc = "over"
    BY DEF Sound, TransferSound, NoTransfer
  <2>1. CASE HandleFails \/ OptionsFail
    <3>1. xfer'.pc = "over" /\ xfer.pc # "perform" /\ UNCHANGED buffers
      BY <2>0, <2>1 DEF HandleFails, OptionsFail, Leave, buffers
    <3> QED BY <3>1, NotRunning
  <2>2. CASE HandleReady \/ OptionsSet
    <3>1. xfer.pc # "perform" /\ UNCHANGED buffers /\ xfer'.received = <<>>
      BY <2>0, <2>2 DEF HandleReady, OptionsSet, buffers, Sound, TransferSound, Xfer
    <3> QED BY <3>1, NotRunning
  <2>3. CASE FlushFails \/ \E ret \in CurlErrors \union {OK} : FileReturns(ret)
    <3>1. xfer.fn \notin Requests /\ xfer'.pc = "over" /\ UNCHANGED buffers
      BY <2>0, <2>3 DEF FlushFails, FileReturns, Leave, Downloads, Requests, buffers
    <3> QED BY <3>1, NotRunning
  <2>4. ASSUME NEW k, NEW v, Header(k, v) PROVE BuffersInv'
    <3>1. xfer'.pc = xfer.pc /\ xfer'.fn = xfer.fn /\ xfer'.received = xfer.received /\ UNCHANGED buffers
      BY <2>0, <2>4 DEF Header, Xfer, buffers
    <3>2. Running' = Running
      BY <3>1 DEF Running
    <3> QED BY <3>1, <3>2, BuffersKept
  <2> QED BY <1>5, <2>1, <2>2, <2>3, <2>4, BlockBuffers, AnswerBuffers DEF TransferStep
<1>6. CASE Serves
  BY <1>1, <1>6 DEF Serves
<1>7. CASE UNCHANGED vars
  BY <1>1, <1>7 DEF vars, netVars
<1> QED BY <1>1, <1>2, <1>3, <1>4, <1>5, <1>6, <1>7, Steps

----------------------------------------------------------------------------
(* Guarded files are those of AtomicFiles *)

AtomicStep == Atomic!Next \/ UNCHANGED <<holder, Inside, Settled, BeingWritten, Clients>>

(* There is at most one process inside, and the files it writes are all    *)
(* the guarded ones being written.                                         *)
LEMMA InsideAlone ==
  ASSUME Sound, LockHeld
  PROVE  /\ \A p \in Procs : p \in Inside <=> section[p] = "in"
         /\ \A p, q \in Inside : p = q /\ holder = p
         /\ \A p \in Procs, f \in Guarded : f \in Writing(p) => p \in Inside
         /\ \A p \in Inside : BeingWritten = Writing(p) \intersect Guarded
<1>1. \A p \in Procs : p \in Inside <=> section[p] = "in"
  BY DEF Inside
<1>2. \A p, q \in Inside : p = q /\ holder = p
  BY DEF Inside, LockHeld
<1>3. ASSUME NEW p \in Procs, NEW f \in Guarded, f \in Writing(p) PROVE p \in Inside
  <2>1. Using(p, f)
    BY <1>3 DEF Writing, Using, Opened
  <2> QED BY <1>1, <2>1 DEF LockHeld
<1>4. \A p \in Inside : BeingWritten = Writing(p) \intersect Guarded
  BY <1>1, <1>2, <1>3 DEF BeingWritten, Inside
<1> QED BY <1>1, <1>2, <1>3, <1>4

(* What a client of AtomicFiles sees of a call.                            *)
LEMMA SeenOf ==
  ASSUME NEW c
  PROVE  /\ c.path \notin Guarded => AsClient(c) = Atomic!Idle
         /\ c.path \in Guarded /\ c.pc = "over" => AsClient(c) = Atomic!Has(c.path, c.ret, c.data)
         /\ c.path \in Guarded /\ c.pc # "over" => AsClient(c) = Atomic!Asks(c.fn, c.path)
BY DEF AsClient, Atomic!Idle, Atomic!Has, Atomic!Asks

LEMMA SeenOfNoCall == AsClient(NoCall) = Atomic!Idle
<1>1. NoCall.pc = "over" /\ NoCall.ret = 0 /\ NoCall.data = <<>>
  BY DEF NoCall
<1>2. Atomic!Has(NoCall.path, 0, <<>>) = Atomic!Idle
  BY DEF Atomic!Has, Atomic!Idle, Atomic!Asks
<1> QED BY <1>1, <1>2, SeenOf

LEMMA FreeIsSeen ==
  ASSUME NEW c, c.pc = "over" \/ c.path \notin Guarded
  PROVE  AsClient(c).fn = "none"
BY SeenOf DEF Atomic!Idle, Atomic!Has, Atomic!Asks

LEMMA CallIsSeen ==
  ASSUME call \in [Procs -> Call], NEW p \in Procs, NEW c, CallBecomes(p, c)
  PROVE  Clients' = [Clients EXCEPT ![p] = AsClient(c)] /\ Clients[p] = AsClient(call[p])
BY DEF Clients, CallBecomes

LEMMA WritersSame ==
  ASSUME \A q \in Procs : Writing(q)' \intersect Guarded = Writing(q) \intersect Guarded
  PROVE  BeingWritten' = BeingWritten
BY DEF BeingWritten

LEMMA SettledSame ==
  ASSUME BeingWritten' = BeingWritten,
         \A f \in Guarded \ BeingWritten : node'[f].data = node[f].data
  PROVE  Settled' = Settled
BY DEF Settled

(* Only p may begin or end writing in a step of its calls.                 *)
LEMMA OneWrites ==
  ASSUME Sound, NEW p \in Procs, ~Busy(p), xfer' = xfer,
         \A q \in Procs \ {p} : call'[q] = call[q]
  PROVE  /\ \A q \in Procs \ {p} : Writing(q)' = Writing(q)
         /\ Writing(p) = IF call[p].pc = "write" THEN {call[p].path} ELSE {}
         /\ Writing(p)' = IF call'[p].pc = "write" THEN {call'[p].path} ELSE {}
<1>1. p = Caller => ~xfer.file
  BY DEF Busy, Sound, TransferSound
<1> QED BY <1>1 DEF Writing

(* A step of p that writes no guarded file is seen in its call only.       *)
LEMMA SeenInCallOnly ==
  ASSUME Sound, NEW p \in Procs, ~Busy(p), xfer' = xfer, UNCHANGED <<section, holder>>,
         \A q \in Procs \ {p} : call'[q] = call[q],
         call[p].pc = "write" /\ call[p].path \in Guarded
           <=> call'[p].pc = "write" /\ call'[p].path \in Guarded,
         call'[p].pc = "write" => call'[p].path = call[p].path,
         \A f \in Guarded \ BeingWritten : node'[f].data = node[f].data
  PROVE  UNCHANGED <<holder, Inside, Settled, BeingWritten>>
<1>1. BeingWritten' = BeingWritten
  BY OneWrites, WritersSame
<1> QED BY <1>1, SettledSame DEF Inside

(* Calls on other files.                                                   *)
LEMMA AsideIsElsewhere ==
  ASSUME Sound, NEW p \in Procs, ~Busy(p), xfer' = xfer, UNCHANGED <<section, holder>>,
         NEW c, CallBecomes(p, c), c.path \notin Guarded,
         call[p].pc = "over" \/ call[p].path \notin Guarded,
         \A f \in Guarded : node'[f].data = node[f].data
  PROVE  AtomicStep
<1>0. call \in [Procs -> Call]
  BY DEF Sound, FilesTyped
<1>1. call'[p] = c /\ \A q \in Procs \ {p} : call'[q] = call[q]
  BY <1>0, CallOnly
<1>2. ~(call[p].pc = "write" /\ call[p].path \in Guarded) /\ ~(call'[p].path \in Guarded)
  BY <1>1
<1>3. \A q \in Procs : Writing(q)' \intersect Guarded = Writing(q) \intersect Guarded
  BY <1>1, <1>2, OneWrites
<1>4. UNCHANGED <<holder, Inside, Settled, BeingWritten>>
  BY <1>3, WritersSame, SettledSame DEF Inside
<1>5. Clients' = [Clients EXCEPT ![p] = Atomic!Idle] /\ Clients[p].fn = "none"
  BY <1>0, CallIsSeen, SeenOf, FreeIsSeen
<1>6. Atomic!Elsewhere(p)
  BY <1>4, <1>5 DEF Atomic!Elsewhere, Atomic!Becomes
<1> QED BY <1>6 DEF AtomicStep, Atomic!Next

LEMMA CallBeginsAtomic ==
  ASSUME Sound, LockHeld, NEW p \in Procs, ~Busy(p), Reads(p) \/ Writes(p) \/ Unzips(p),
         xfer' = xfer
  PROVE  AtomicStep
<1>0. /\ call \in [Procs -> Call] /\ node \in [Files \union Dirs -> Node]
      /\ mix.files \subseteq Files /\ Guarded \subseteq Files /\ Guarded \intersect Dirs = {}
  BY MixesAssumption, FilesAssumption DEF Sound, FilesTyped
<1>1. UNCHANGED <<section, holder>> /\ call[p].pc = "over"
  BY DEF Reads, Writes, Unzips, OpenToRead, OpenToWrite, UnzipTests, Free
<1>2. Clients[p].fn = "none"
  BY <1>0, <1>1, CallIsSeen, FreeIsSeen DEF Clients
(* The call is refused.                                                    *)
<1>3. ASSUME NEW f \in mix.files, MayUse(p, f), node' = node,
             CallBecomes(p, [NoCall EXCEPT !.path = f, !.ret = -1])
      PROVE  AtomicStep
  <2> DEFINE c == [NoCall EXCEPT !.path = f, !.ret = -1]
  <2>1. c.pc = "over" /\ c.path = f /\ c.ret = -1 /\ c.data = <<>>
    BY DEF NoCall
  <2> HIDE DEF c
  <2>2. CallBecomes(p, c)
    BY <1>3 DEF c
  <2>3. CASE f \notin Guarded
    BY <1>1, <1>3, <2>1, <2>2, <2>3, AsideIsElsewhere
  <2>4. CASE f \in Guarded
    <3>1. call'[p] = c /\ \A q \in Procs \ {p} : call'[q] = call[q]
      BY <1>0, <2>2, CallOnly
    <3>2. UNCHANGED <<holder, Inside, Settled, BeingWritten>>
      BY <1>1, <1>3, <2>1, <3>1, SeenInCallOnly
    <3>3. Clients' = [Clients EXCEPT ![p] = Atomic!Has(f, -1, <<>>)]
      BY <1>0, <2>1, <2>2, <2>4, CallIsSeen, SeenOf
    <3>4. p \in Inside
      BY <1>3, <2>4, InsideAlone DEF MayUse
    <3>5. Atomic!Fails(p, f)
      BY <1>2, <3>2, <3>3, <3>4 DEF Atomic!Fails, Atomic!Becomes
    <3> QED BY <2>4, <3>5 DEF AtomicStep, Atomic!Next
  <2> QED BY <2>3, <2>4
<1>4. ASSUME NEW fn \in Readers, NEW f \in mix.files, OpenToRead(p, fn, f) PROVE AtomicStep
  <2> DEFINE c == [NewCall(fn, f) EXCEPT !.pc = "measure"]
  <2>1. c.pc = "measure" /\ c.path = f /\ c.fn = fn
    BY DEF NewCall, NoCall
  <2> HIDE DEF c
  <2>2. CallBecomes(p, c) \/ CallBecomes(p, [NoCall EXCEPT !.path = f, !.ret = -1])
    BY <1>4 DEF OpenToRead, CallBecomes, c
  <2>3. MayUse(p, f) /\ node' = node
    BY <1>4 DEF OpenToRead
  <2>4. CASE CallBecomes(p, c) /\ f \notin Guarded
    BY <1>1, <2>1, <2>3, <2>4, AsideIsElsewhere
  <2>5. CASE CallBecomes(p, c) /\ f \in Guarded
    <3>1. call'[p] = c /\ \A q \in Procs \ {p} : call'[q] = call[q]
      BY <1>0, <2>5, CallOnly
    <3>2. UNCHANGED <<holder, Inside, Settled, BeingWritten>>
      BY <1>1, <2>1, <2>3, <3>1, SeenInCallOnly
    <3>3. Clients' = [Clients EXCEPT ![p] = Atomic!Asks(fn, f)]
      BY <1>0, <2>1, <2>5, CallIsSeen, SeenOf
    <3>4. p \in Inside
      BY <2>3, <2>5, InsideAlone DEF MayUse
    <3>5. Atomic!Read(p, fn, f)
      BY <1>2, <3>2, <3>3, <3>4 DEF Atomic!Read, Atomic!Becomes
    <3> QED BY <2>5, <3>5 DEF AtomicStep, Atomic!Next, Atomic!ReadFns, Readers
  <2> QED BY <1>3, <2>2, <2>3, <2>4, <2>5
<1>5. ASSUME NEW f \in mix.files, NEW content \in Contents, OpenToWrite(p, f, content)
      PROVE  AtomicStep
  <2> DEFINE c == [NewCall("write", f) EXCEPT !.pc = "write", !.data = content]
  <2>1. c.pc = "write" /\ c.path = f /\ c.fn = "write"
    BY DEF NewCall, NoCall
  <2> HIDE DEF c
  <2>2. \/ CallBecomes(p, c) /\ node' = [node EXCEPT ![f] = File(<<>>)]
        \/ CallBecomes(p, [NoCall EXCEPT !.path = f, !.ret = -1]) /\ node' = node
    BY <1>5 DEF OpenToWrite, CallBecomes, c
  <2>3. MayUse(p, f)
    BY <1>5 DEF OpenToWrite
  <2>4. ASSUME CallBecomes(p, c), node' = [node EXCEPT ![f] = File(<<>>)], f \notin Guarded
        PROVE  AtomicStep
    BY <1>0, <1>1, <2>1, <2>4, AsideIsElsewhere
  <2>5. ASSUME CallBecomes(p, c), node' = [node EXCEPT ![f] = File(<<>>)], f \in Guarded
        PROVE  AtomicStep
    <3>1. call'[p] = c /\ \A q \in Procs \ {p} : call'[q] = call[q]
      BY <1>0, <2>5, CallOnly
    <3>2. p \in Inside
      BY <2>3, <2>5, InsideAlone DEF MayUse
    <3>3. Writing(p) = {} /\ Writing(p)' = {f} /\ \A q \in Procs \ {p} : Writing(q)' = Writing(q)
      BY <1>1, <2>1, <3>1, OneWrites
    <3>4. BeingWritten = {} /\ \A q \in Procs : Writing(q) \intersect Guarded = {}
      BY <3>2, <3>3, InsideAlone
    <3>5. BeingWritten' = {f}
      BY <2>5, <3>3, <3>4 DEF BeingWritten
    <3>6. Settled' = [Settled EXCEPT ![f] = <<>>]
      <4>1. \A g \in Guarded \ {f} : node'[g] = node[g]
        BY <2>5
      <4> QED BY <3>4, <3>5, <4>1 DEF Settled
    <3>7. Clients' = [Clients EXCEPT ![p] = Atomic!Asks("write", f)]
      BY <1>0, <2>1, <2>5, CallIsSeen, SeenOf
    <3>8. UNCHANGED <<holder, Inside>>
      BY <1>1 DEF Inside
    <3>9. Atomic!Write(p, f)
      BY <1>2, <3>2, <3>4, <3>5, <3>6, <3>7, <3>8 DEF Atomic!Write, Atomic!Begin, Atomic!Becomes
    <3> QED BY <2>5, <3>9 DEF AtomicStep, Atomic!Next
  <2> QED BY <1>3, <2>2, <2>3, <2>4, <2>5
<1>6. ASSUME NEW d \in Dirs, UnzipTests(p, d) PROVE AtomicStep
  <2> DEFINE c == [NewCall("unzip", d) EXCEPT !.pc = IF node[d] = Absent THEN "mkdir" ELSE "extract"]
  <2>1. c.path = d
    BY DEF NewCall, NoCall
  <2> HIDE DEF c
  <2>2. CallBecomes(p, c) /\ node' = node
    BY <1>6 DEF UnzipTests, CallBecomes, c
  <2> QED BY <1>0, <1>1, <2>1, <2>2, AsideIsElsewhere
<1> QED BY <1>4, <1>5, <1>6 DEF Reads, Writes, Unzips

LEMMA LockAtomic ==
  ASSUME Sound, LockHeld, NEW p \in Procs, ~Busy(p), xfer' = xfer,
         LockOpens(p) \/ FlockFails(p) \/ Flock(p) \/ FuncReturns(p) \/ FuncThrows(p)
  PROVE  AtomicStep
<1>0. section \in [Procs -> {"out", "wait", "in"}] /\ call \in [Procs -> Call]
  BY DEF Sound, FilesTyped
<1>1. UNCHANGED <<node, call>>
  BY DEF LockOpens, FlockFails, Flock, FuncReturns, FuncThrows
<1>2. UNCHANGED <<Settled, BeingWritten, Clients>>
  BY <1>1 DEF Settled, BeingWritten, Writing, Clients
<1>3. CASE LockOpens(p) \/ FlockFails(p)
  <2>1. UNCHANGED <<Inside, holder>>
    BY <1>0, <1>3 DEF LockOpens, FlockFails, Inside
  <2> QED BY <1>2, <2>1 DEF AtomicStep
<1>4. CASE Flock(p)
  <2>1. Inside' = Inside \union {p} /\ holder = Nobody /\ holder' = p
    BY <1>0, <1>4 DEF Flock, Inside
  <2>2. Atomic!Enter(p)
    BY <1>2, <2>1 DEF Atomic!Enter
  <2> QED BY <2>2 DEF AtomicStep, Atomic!Next
<1>5. CASE FuncReturns(p) \/ FuncThrows(p)
  <2>1. /\ p \in Inside /\ Inside' = Inside \ {p} /\ holder' \in {holder, Nobody}
        /\ call[p].pc = "over"
    BY <1>0, <1>5 DEF FuncReturns, FuncThrows, Inside
  <2>2. Writing(p) = {}
    BY <1>1, <2>1, OneWrites
  <2>3. BeingWritten = {}
    BY <2>1, <2>2, InsideAlone
  <2>4. Clients[p].fn = "none"
    BY <1>0, <2>1, FreeIsSeen DEF Clients
  <2>5. Atomic!Leave(p)
    BY <1>2, <2>1, <2>3, <2>4 DEF Atomic!Leave
  <2> QED BY <2>5 DEF AtomicStep, Atomic!Next
<1> QED BY <1>3, <1>4, <1>5

(* A guarded file holds the beginning of something that was written.       *)
LEMMA BeginningsSeen ==
  ASSUME NEW s \in Seq(Nat), NEW w \in Wholes, Begins(s, w)
  PROVE  s = SubSeq(w, 1, Len(s)) /\ Len(s) \in 0 .. Len(w) /\ s \in Atomic!Beginnings
<1>1. w \in Seq(Nat) /\ Len(s) \in Nat /\ Len(w) \in Nat /\ Len(s) <= Len(w)
  BY WholesTyped, LenProperties DEF Begins
<1>2. /\ SubSeq(w, 1, Len(s)) \in Seq(Nat) /\ Len(SubSeq(w, 1, Len(s))) = Len(s)
      /\ \A k \in 1 .. Len(s) : SubSeq(w, 1, Len(s))[k] = w[k]
  BY <1>1, SubSeqProperties
<1>3. s = SubSeq(w, 1, Len(s))
  BY <1>1, <1>2, SeqEqual DEF Begins
<1>4. Len(s) \in 0 .. Len(w)
  BY <1>1
<1>5. \A n \in 0 .. Len(w) : SubSeq(w, 1, n) \in Atomic!Beginnings
  BY DEF Atomic!Beginnings
<1> QED BY <1>3, <1>4, <1>5

LEMMA KillAtomic ==
  ASSUME Sound, LockHeld, Right, NEW p \in Procs, Kill(p)
  PROVE  AtomicStep
<1>0. /\ section \in [Procs -> {"out", "wait", "in"}] /\ call \in [Procs -> Call]
      /\ node' = node /\ NoCall.pc = "over" /\ NoTransfer.file = FALSE
  BY DEF Sound, FilesTyped, Kill, Killed, NoCall, NoTransfer
<1>1. /\ CallBecomes(p, NoCall) /\ Inside' = Inside \ {p}
      /\ holder' = IF holder = p THEN Nobody ELSE holder
      /\ xfer' = IF p = Caller THEN NoTransfer ELSE xfer
  BY <1>0 DEF Kill, Killed, CallBecomes, Inside, CallerKilled, netVars
<1>2. Clients' = [Clients EXCEPT ![p] = Atomic!Idle]
  BY <1>0, <1>1, CallIsSeen, SeenOfNoCall
<1>3. /\ Writing(p)' = {}
      /\ \A q \in Procs \ {p} : Writing(q)' = Writing(q)
  <2>1. call'[p] = NoCall /\ \A q \in Procs \ {p} : call'[q] = call[q]
    BY <1>0, <1>1, CallOnly
  <2> QED BY <1>0, <1>1, <2>1 DEF Writing
<1>4. CASE p \in Inside
  <2>1. BeingWritten' = {}
    <3>1. \A q \in Procs \ {p} : Writing(q) \intersect Guarded = {}
      BY <1>4, InsideAlone
    <3> QED BY <1>3, <3>1 DEF BeingWritten
  <2>2. \A f \in Guarded : node[f].data \in Atomic!Beginnings
    <3>1. ASSUME NEW f \in Guarded PROVE node[f].data \in Atomic!Beginnings
      <4>1. node[f].data \in Seq(Nat)
        BY AtPath, FilesAssumption DEF Sound
      <4>2. PICK w \in Wholes : Begins(node[f].data, w)
        BY DEF Right, FilesRight, FileRight, BeginsWhole
      <4> QED BY <4>1, <4>2, BeginningsSeen
    <3> QED BY <3>1
  <2> DEFINE left == [f \in BeingWritten |-> node[f].data]
  <2>3. left \in [BeingWritten -> Atomic!Beginnings]
    BY <2>2 DEF BeingWritten
  <2>4. Settled' = [f \in Guarded |-> IF f \in BeingWritten THEN left[f] ELSE Settled[f]]
    BY <1>0, <2>1 DEF Settled
  <2> HIDE DEF left
  <2>5. Atomic!Settle
    BY <2>1, <2>3, <2>4 DEF Atomic!Settle
  <2>6. Atomic!Die(p)
    BY <1>1, <1>2, <1>4, <2>5 DEF Atomic!Die, Atomic!Becomes
  <2> QED BY <2>6 DEF AtomicStep, Atomic!Next
<1>5. CASE p \notin Inside
  <2>1. Writing(p) \intersect Guarded = {}
    BY <1>5, InsideAlone
  <2>2. BeingWritten' = BeingWritten
    BY <1>3, <2>1, WritersSame
  <2>3. Settled' = Settled
    BY <1>0, <2>2, SettledSame
  <2>4. Atomic!Die(p)
    BY <1>1, <1>2, <1>5, <2>2, <2>3 DEF Atomic!Die, Atomic!Becomes
  <2> QED BY <2>4 DEF AtomicStep, Atomic!Next
<1> QED BY <1>4, <1>5

(* What is written has no NUL, so no string is cut.                        *)
LEMMA NothingCut ==
  ASSUME NEW s \in Seq(Nat), BeginsWhole(s)
  PROVE  AsString(s) = 0
<1>1. PICK w \in Wholes : Begins(s, w)
  BY DEF BeginsWhole
<1>2. w \in Seq(Nat \ {NUL})
  BY FilesAssumption, NetAssumption DEF Wholes
<1>3. \A k \in 1 .. Len(w) : w[k] # NUL
  BY <1>2
<1>4. \A k \in 1 .. Len(s) : s[k] # NUL
  <2>1. Len(s) \in Nat /\ Len(w) \in Nat
    BY <1>2, LenProperties
  <2> QED BY <1>1, <1>3, <2>1 DEF Begins
<1> QED BY <1>4 DEF AsString, SelectInSeq

LEMMA FileStepAtomic ==
  ASSUME Sound, LockHeld, Right, NEW p \in Procs, ~Busy(p), FileStep(p), xfer' = xfer
  PROVE  AtomicStep
<1> DEFINE path == call[p].path
<1>0. /\ call \in [Procs -> Call] /\ call[p] \in Call /\ Placed(call[p])
      /\ node \in [Files \union Dirs -> Node]
      /\ \A f \in Guarded : f \in Files /\ f \notin Dirs
  BY FilesAssumption DEF Sound, FilesTyped, CallsPlaced
<1>1. /\ UNCHANGED <<section, holder>> /\ call'[p].path = path
      /\ \A q \in Procs \ {p} : call'[q] = call[q]
  <2>1. holder' = holder
    BY DEF FileStep, Measure, MeasureFails, ReadBlock, ReadReturns, WriteBlock, WriteReturns,
           UnzipMakes, UnzipReturns
  <2> QED BY <2>1, FileStepCloses, FileStepPath
<1>2. \A f \in Guarded \ {path} : node'[f].data = node[f].data
  <2>1. CASE WriteBlock(p)
    BY <1>0, <2>1 DEF WriteBlock
  <2>2. CASE UnzipMakes(p)
    BY <1>0, <2>2 DEF UnzipMakes
  <2>3. CASE node' = node
    BY <2>3
  <2> QED BY <2>1, <2>2, <2>3 DEF FileStep, Measure, MeasureFails, ReadBlock, ReadReturns,
                                  WriteReturns, UnzipReturns
<1>3. CASE path \notin Guarded
  <2>1. PICK c \in Call : CallBecomes(p, c)
    BY FileStepCalls DEF Sound
  <2>2. c.path \notin Guarded
    BY <1>0, <1>1, <1>3, <2>1, CallOnly
  <2> QED BY <1>1, <1>2, <1>3, <2>1, <2>2, AsideIsElsewhere
<1>4. ASSUME path \in Guarded PROVE AtomicStep
  <2>1. ~UnzipMakes(p) /\ ~UnzipReturns(p)
    BY <1>0, <1>4 DEF UnzipMakes, UnzipReturns, Placed
  <2>2. call[p].pc \in Opened /\ call[p].pc # "over"
    BY <2>1 DEF FileStep, Measure, MeasureFails, ReadBlock, ReadReturns, WriteBlock, WriteReturns, Opened
  <2>3. p \in Inside
    BY <1>4, <2>2, InsideAlone DEF LockHeld, Using
  <2>4. /\ Clients[p] = Atomic!Asks(call[p].fn, path)
        /\ Clients[p].fn = call[p].fn /\ Clients[p].path = path
    <3>1. Clients[p] = Atomic!Asks(call[p].fn, path)
      BY <1>4, <2>2, SeenOf DEF Clients
    <3> QED BY <3>1 DEF Atomic!Asks
  <2>5. node[path].data \in Seq(Nat) /\ FileRight(node[path].data, fate[path])
        /\ CallRight(call[p], node[path].data, fate[path])
    BY <1>0, <1>4, AtPath DEF Sound, Right, FilesRight, CallsRight
  <2>6. BeingWritten = IF call[p].pc = "write" THEN {path} ELSE {}
    <3>1. Writing(p) = IF call[p].pc = "write" THEN {path} ELSE {}
      BY <1>1, OneWrites
    <3> QED BY <1>4, <2>3, <3>1, InsideAlone
  <2>7. path \notin BeingWritten => Settled[path] = node[path].data
    BY <1>4 DEF Settled
(* A call that ends.                                                       *)
  <2>8. ASSUME NEW ret, NEW data, Return(p, ret, data)
        PROVE  /\ Clients' = [Clients EXCEPT ![p] = Atomic!Has(path, ret, data)]
               /\ call'[p].pc = "over"
    <3> DEFINE c == [NoCall EXCEPT !.path = path, !.ret = ret, !.data = data]
    <3>1. c.pc = "over" /\ c.path = path /\ c.ret = ret /\ c.data = data
      BY DEF NoCall
    <3>2. CallBecomes(p, c)
      BY <2>8 DEF Return, CallBecomes
    <3> HIDE DEF c
    <3> QED BY <1>0, <1>4, <3>1, <3>2, CallIsSeen, CallOnly, SeenOf
(* One that reads, or writes another block.                                *)
  <2>9. ASSUME \/ call'[p].pc = call[p].pc
               \/ call'[p].pc \in {"read", "over"} /\ call[p].pc # "write",
               node' = node \/ call[p].pc = "write"
        PROVE  UNCHANGED <<holder, Inside, Settled, BeingWritten>>
    <3>1. \A f \in Guarded \ BeingWritten : node'[f].data = node[f].data
      BY <1>2, <2>6, <2>9
    <3> QED BY <1>1, <2>2, <2>9, <3>1, SeenInCallOnly
  <2>10. ASSUME call'[p].pc = call[p].pc \/ call'[p].pc = "read", call[p].pc # "write" \/ call'[p].pc = "write",
                call'[p].fn = call[p].fn, node' = node \/ call[p].pc = "write"
         PROVE  AtomicStep
    <3>1. PICK c \in Call : CallBecomes(p, c)
      BY FileStepCalls DEF Sound
    <3>2. call'[p] = c
      BY <1>0, <3>1, CallOnly
    <3>3. AsClient(c) = Atomic!Asks(call[p].fn, path)
      BY <1>1, <1>4, <2>2, <2>10, <3>2, SeenOf
    <3>4. Clients' = Clients
      <4>1. Clients' = [Clients EXCEPT ![p] = Clients[p]]
        BY <1>0, <2>4, <3>1, <3>3, CallIsSeen
      <4>2. [Clients EXCEPT ![p] = Clients[p]] = Clients
        BY DEF Clients
      <4> QED BY <4>1, <4>2
    <3>5. UNCHANGED <<holder, Inside, Settled, BeingWritten>>
      <4>1. \/ call'[p].pc = call[p].pc
            \/ call'[p].pc \in {"read", "over"} /\ call[p].pc # "write"
        BY <2>10
      <4> QED BY <2>9, <2>10, <4>1
    <3> QED BY <3>4, <3>5 DEF AtomicStep
  <2>11. ASSUME NEW ret \in {-1, -2, -3}, Return(p, ret, <<>>), call[p].pc = "measure", node' = node
         PROVE  AtomicStep
    <3>1. UNCHANGED <<holder, Inside, Settled, BeingWritten>>
      BY <2>8, <2>9, <2>11
    <3>2. call[p].fn \in Readers
      BY <1>0, <2>11 DEF Placed
    <3>3. Clients' = [Clients EXCEPT ![p] = Atomic!Has(path, ret, <<>>)]
      BY <2>8, <2>11
    <3>4. Atomic!Fails(p, path)
      BY <2>3, <2>4, <3>1, <3>2, <3>3 DEF Atomic!Fails, Atomic!Becomes, Atomic!At, Atomic!ReadFns, Readers
    <3> QED BY <1>4, <3>4 DEF AtomicStep, Atomic!Next
(* A read that is whole.                                                   *)
  <2>12. ASSUME NEW ret, NEW data, Return(p, ret, data), node' = node,
                call[p].pc # "write", call[p].fn \in Readers,
                IF call[p].fn = "size" THEN ret = Len(node[path].data) /\ data = <<>>
                                       ELSE ret = 0 /\ data = node[path].data
         PROVE  AtomicStep
    <3>1. UNCHANGED <<holder, Inside, Settled, BeingWritten>>
      BY <2>8, <2>9, <2>12
    <3>2. Clients' = [Clients EXCEPT ![p] = Atomic!Has(path, ret, data)]
      BY <2>8, <2>12
    <3>3. path \notin BeingWritten /\ Settled[path] = node[path].data
      BY <2>6, <2>7, <2>12
    <3>4. Atomic!Becomes(p, IF Clients[p].fn = "size" THEN Atomic!Has(Atomic!At(p), Len(Settled[Atomic!At(p)]), <<>>)
                                                      ELSE Atomic!Has(Atomic!At(p), 0, Settled[Atomic!At(p)]))
      BY <2>4, <2>12, <3>2, <3>3 DEF Atomic!Becomes, Atomic!At
    <3>5. Atomic!ReadReturns(p)
      BY <2>3, <2>4, <2>12, <3>1, <3>3, <3>4 DEF Atomic!ReadReturns, Atomic!At, Atomic!ReadFns, Readers
    <3> QED BY <3>5 DEF AtomicStep, Atomic!Next
  <2> HIDE DEF path
  <2>13. CASE Measure(p)
    <3>1. node' = node /\ call[p].pc = "measure" /\ call[p].fn \in Readers
      BY <1>0, <2>13 DEF Measure, Placed
    <3>2. CASE call[p].fn = "size"
      <4>1. Return(p, Len(node[path].data), <<>>)
        BY <2>13, <3>2 DEF Measure, Data, path
      <4> QED BY <2>12, <3>1, <3>2, <4>1
    <3>3. CASE call' = [call EXCEPT ![p].pc = "read", ![p].size = Len(Data(p))]
      <4>1. call'[p].pc = "read" /\ call'[p].fn = call[p].fn
        BY <1>0, <3>3 DEF Call
      <4> QED BY <2>10, <3>1, <4>1
    <3>4. CASE Return(p, -3, <<>>)
      BY <2>11, <3>1, <3>4
    <3> QED BY <2>13, <3>2, <3>3, <3>4 DEF Measure
  <2>14. CASE MeasureFails(p)
    <3>1. PICK ret \in {-1, -2, -3} : Return(p, ret, <<>>)
      BY <2>14 DEF MeasureFails
    <3> QED BY <2>11, <2>14, <3>1 DEF MeasureFails
  <2>15. CASE ReadBlock(p)
    <3>1. call'[p].pc = call[p].pc /\ call'[p].fn = call[p].fn /\ node' = node
      BY <1>0, <2>15 DEF ReadBlock, Call
    <3>2. call[p].pc = "read"
      BY <2>15 DEF ReadBlock
    <3> QED BY <2>10, <3>1, <3>2
  <2>16. CASE ReadReturns(p)
    <3>1. /\ call[p].pc = "read" /\ node' = node /\ Len(call[p].data) = call[p].size
          /\ call[p].data \in Seq(Nat) /\ call[p].fn \in Readers \ {"size"}
      BY <1>0, <2>16 DEF ReadReturns, Call, Placed
    <3>2. call[p].data = node[path].data
      <4>1. Begins(call[p].data, node[path].data) /\ Len(node[path].data) <= Len(call[p].data)
        BY <2>5, <3>1, LenProperties DEF CallRight
      <4> QED BY <2>5, <3>1, <4>1, BeginsAll
    <3>3. AsString(call[p].data) = 0
      BY <2>5, <3>1, <3>2, NothingCut DEF FileRight
    <3>4. Return(p, 0, node[path].data)
      BY <2>16, <3>2, <3>3 DEF ReadReturns
    <3> QED BY <2>12, <3>1, <3>4
  <2>17. CASE WriteBlock(p)
    <3>1. call'[p].pc = call[p].pc /\ call'[p].fn = call[p].fn /\ call[p].pc = "write"
      BY <1>0, <2>17 DEF WriteBlock, Call
    <3> QED BY <2>10, <3>1
  <2>18. CASE WriteReturns(p)
    <3> DEFINE c == call[p].data
               n == call[p].size
    <3>1. /\ call[p].pc = "write" /\ call[p].fn = "write" /\ node' = node
          /\ c \in Contents /\ c \in Wholes /\ c \in Seq(Nat) /\ n \in Nat /\ Len(c) \in Nat /\ n <= Len(c)
      BY <1>0, <2>18, WholesTyped, LenProperties DEF WriteReturns, Placed, Call
    <3>2. Len(node[path].data) = n /\ Begins(node[path].data, c)
      BY <2>5, <3>1 DEF CallRight
    <3>3. PICK told \in {n, Len(c)} : Return(p, told, <<>>)
      BY <2>18 DEF WriteReturns
    <3>4. told \in 0 .. Len(c) /\ n \in 0 .. told
      BY <3>1, <3>3
    <3>5. SubSeq(c, 1, n) = node[path].data
      BY <2>5, <3>1, <3>2, BeginningsSeen
    <3>6. Writing(p)' = {}
      BY <1>1, <2>8, <3>3, OneWrites
    <3>7. BeingWritten = {path} /\ BeingWritten' = {}
      <4>1. \A q \in Procs \ {p} : Writing(q)' \intersect Guarded = {}
        BY <1>1, <2>3, InsideAlone, OneWrites
      <4> QED BY <2>6, <3>1, <3>6, <4>1 DEF BeingWritten
    <3>8. Settled' = [Settled EXCEPT ![path] = SubSeq(c, 1, n)]
      BY <3>1, <3>5, <3>7 DEF Settled
    <3>9. Inside' = Inside
      BY <1>1 DEF Inside
    <3> HIDE DEF c, n
    <3>10. Atomic!End(p, path, SubSeq(c, 1, n))
      BY <1>1, <2>3, <3>7, <3>8, <3>9 DEF Atomic!End
    <3>11. Atomic!Becomes(p, Atomic!Has(path, told, <<>>))
      BY <2>8, <3>3 DEF Atomic!Becomes
    <3>12. Atomic!WriteReturns(p, path)
      BY <2>4, <3>1, <3>4, <3>10, <3>11 DEF Atomic!WriteReturns
    <3> QED BY <1>4, <3>12 DEF AtomicStep, Atomic!Next
  <2> QED BY <2>1, <2>13, <2>14, <2>15, <2>16, <2>17, <2>18 DEF FileStep
<1> QED BY <1>3, <1>4

LEMMA TransferBeginsAtomic ==
  ASSUME Sound, LockHeld, NEW fn \in Uploads \union Downloads, NEW f \in mix.files,
         OpenForTransfer(fn, f)
  PROVE  AtomicStep
<1>0. /\ f \in Files /\ (f \in Guarded => Caller \in Inside)
      /\ call[Caller].pc = "over" /\ xfer.file = FALSE /\ Caller \in Procs
      /\ call \in [Procs -> Call] /\ node \in [Files \union Dirs -> Node] /\ Guarded \subseteq Files
  BY MixesAssumption, NetAssumption, FilesAssumption, InsideAlone
     DEF OpenForTransfer, MayUse, CallerFree, Free, Sound, FilesTyped, TransferSound, Xfer
<1>1. /\ UNCHANGED <<call, section, holder>>
      /\ IF fn \in Downloads THEN node' = [node EXCEPT ![f] = File(<<>>)] ELSE node' = node
  BY DEF OpenForTransfer
<1>2. UNCHANGED <<Clients, Inside, holder>>
  BY <1>1 DEF Clients, Inside
<1>3. xfer'.fn = fn /\ xfer'.path = f /\ xfer'.file = TRUE
  <2>1. xfer' = OfFile(fn, f)
    BY DEF OpenForTransfer, OfFile
  <2>2. f \in Files
    BY <1>0
  <2>3. OfFile(fn, f).fn = fn /\ OfFile(fn, f).path = f /\ OfFile(fn, f).file = TRUE
    BY <2>2, FileTransferRecord
  <2> QED BY <2>1, <2>3
<1>4. /\ Writing(Caller) = {}
      /\ Writing(Caller)' = IF fn \in Downloads THEN {f} ELSE {}
      /\ \A q \in Procs \ {Caller} : Writing(q)' = Writing(q)
  BY <1>0, <1>1, <1>3 DEF Writing
<1>5. CASE fn \in Downloads /\ f \in Guarded
  <2>1. BeingWritten = {} /\ \A q \in Procs : Writing(q) \intersect Guarded = {}
    BY <1>0, <1>4, <1>5, InsideAlone
  <2>2. BeingWritten' = {f}
    BY <1>0, <1>4, <1>5, <2>1 DEF BeingWritten
  <2>3. Settled' = [Settled EXCEPT ![f] = <<>>]
    <3>1. \A g \in Guarded \ {f} : node'[g] = node[g]
      BY <1>0, <1>1, <1>5
    <3> QED BY <2>1, <2>2, <3>1 DEF Settled
  <2>4. Clients[Caller].fn = "none"
    BY <1>0, FreeIsSeen DEF Clients
  <2>5. Atomic!Download(Caller, f)
    BY <1>0, <1>2, <1>5, <2>1, <2>2, <2>3, <2>4 DEF Atomic!Download, Atomic!Begin
  <2> QED BY <1>0, <1>5, <2>5 DEF AtomicStep, Atomic!Next
<1>6. CASE ~(fn \in Downloads /\ f \in Guarded)
  <2>1. BeingWritten' = BeingWritten
    BY <1>4, <1>6, WritersSame
  <2>2. \A g \in Guarded : node'[g] = node[g]
    BY <1>0, <1>1, <1>6
  <2>3. Settled' = Settled
    BY <2>1, <2>2, SettledSame
  <2> QED BY <1>2, <2>1, <2>3 DEF AtomicStep
<1> QED BY <1>5, <1>6

LEMMA TransferStepAtomic ==
  ASSUME Sound, LockHeld, TransferStep, Sound', Right'
  PROVE  AtomicStep
<1> DEFINE path == xfer.path
<1>0. /\ xfer \in Xfer /\ xfer.pc # "over" /\ call[Caller].pc = "over" /\ Caller \in Procs
      /\ call \in [Procs -> Call] /\ node \in [Files \union Dirs -> Node] /\ Guarded \subseteq Files
  <2>1. xfer.pc # "over"
    BY DEF TransferStep, HandleFails, HandleReady, OptionsFail, OptionsSet, Block, FlushFails,
           FileReturns, RequestReturns, Header
  <2> QED BY <2>1, NetAssumption, FilesAssumption DEF Sound, FilesTyped, TransferSound
<1>1. UNCHANGED <<call, section, holder>>
  BY DEF TransferStep, HandleFails, HandleReady, OptionsFail, OptionsSet, Block, FlushFails,
         FileReturns, RequestReturns, Header, filesVars
<1>2. UNCHANGED <<Clients, Inside, holder>>
  BY <1>1 DEF Clients, Inside
<1>3. \/ xfer'.file = FALSE
      \/ xfer'.file = xfer.file /\ xfer'.path = path /\ xfer'.fn = xfer.fn
  <2>1. CASE Leave
    BY <2>1 DEF Leave, NoTransfer
  <2>2. CASE ~Leave
    BY <1>0, <2>2 DEF TransferStep, HandleFails, HandleReady, OptionsFail, OptionsSet, Block,
              FlushFails, FileReturns, RequestReturns, Header, Xfer
  <2> QED BY <2>1, <2>2
<1>4. \A f \in Guarded : (xfer.fn \in Downloads => f # path) => node'[f] = node[f]
  <2>1. CASE node' = node
    BY <2>1
  <2>2. CASE xfer.fn \in Downloads /\ \E data : node' = [node EXCEPT ![path].data = data]
    BY <1>0, <2>2
  <2>3. node' = node \/ (xfer.fn \in Downloads /\ \E data : node' = [node EXCEPT ![path].data = data])
    <3>1. CASE Block
      BY <3>1 DEF Block
    <3>2. CASE FlushFails
      BY <3>2 DEF FlushFails
    <3>3. CASE ~Block /\ ~FlushFails
      BY <3>3 DEF TransferStep, HandleFails, HandleReady, OptionsFail, OptionsSet,
                  FileReturns, RequestReturns, Header, filesVars
    <3> QED BY <3>1, <3>2, <3>3
  <2> QED BY <2>1, <2>2, <2>3
<1>5. xfer.file \in BOOLEAN /\ (xfer.fn \in Downloads => xfer.file)
  BY <1>0 DEF Sound, TransferSound, Xfer, Downloads, Requests
<1>6. /\ Writing(Caller) = IF xfer.fn \in Downloads THEN {path} ELSE {}
      /\ Writing(Caller)' = IF xfer'.file /\ xfer.fn \in Downloads THEN {path} ELSE {}
      /\ \A q \in Procs \ {Caller} : Writing(q)' = Writing(q)
  <2>1. Writing(Caller) = IF xfer.fn \in Downloads THEN {path} ELSE {}
    BY <1>0, <1>5 DEF Writing
  <2>2. Writing(Caller)' = IF xfer'.file /\ xfer.fn \in Downloads THEN {path} ELSE {}
    BY <1>0, <1>1, <1>3, <1>5 DEF Writing
  <2>3. \A q \in Procs \ {Caller} : Writing(q)' = Writing(q)
    BY <1>1 DEF Writing
  <2> QED BY <2>1, <2>2, <2>3
<1> HIDE DEF path
<1>7. CASE xfer.fn \in Downloads /\ path \in Guarded /\ ~xfer'.file
  <2>1. Caller \in Inside
    BY <1>0, <1>6, <1>7, InsideAlone
  <2>2. BeingWritten = {path} /\ \A q \in Procs \ {Caller} : Writing(q) \intersect Guarded = {}
    BY <1>0, <1>6, <1>7, <2>1, InsideAlone
  <2>3. BeingWritten' = {}
    BY <1>6, <1>7, <2>2 DEF BeingWritten
  <2>4. node'[path].data \in Atomic!Beginnings
    <3>1. (FilesTyped /\ FilesRight)'
      BY DEF Sound, Right
    <3>2. path \in Files
      BY <1>0, <1>7
    <3>3. node'[path].data \in Seq(Nat)
      BY <3>1, <3>2 DEF FilesTyped, Node
    <3>4. PICK w \in Wholes : Begins(node'[path].data, w)
      BY <1>7, <3>1 DEF FilesRight, FileRight, BeginsWhole
    <3> QED BY <3>3, <3>4, BeginningsSeen
  <2>5. Settled' = [Settled EXCEPT ![path] = node'[path].data]
    BY <1>4, <2>2, <2>3 DEF Settled
  <2>6. Atomic!End(Caller, path, node'[path].data)
    BY <1>2, <2>1, <2>2, <2>3, <2>5 DEF Atomic!End
  <2>7. Clients[Caller].fn = "none"
    BY <1>0, FreeIsSeen DEF Clients
  <2>8. Atomic!DownloadEnds(Caller, path)
    BY <1>2, <2>4, <2>6, <2>7 DEF Atomic!DownloadEnds
  <2> QED BY <1>0, <1>7, <2>8 DEF AtomicStep, Atomic!Next
<1>8. CASE ~(xfer.fn \in Downloads /\ path \in Guarded /\ ~xfer'.file)
  <2>1. \A q \in Procs : Writing(q)' \intersect Guarded = Writing(q) \intersect Guarded
    BY <1>6, <1>8
  <2>2. BeingWritten' = BeingWritten
    BY <2>1, WritersSame
  <2>3. \A f \in Guarded \ BeingWritten : node'[f] = node[f]
    BY <1>0, <1>4, <1>6 DEF BeingWritten
  <2>4. Settled' = Settled
    BY <2>2, <2>3, SettledSame
  <2> QED BY <1>2, <2>2, <2>4 DEF AtomicStep
<1> QED BY <1>7, <1>8

(* Steps that touch no file, no call and no lock.                          *)
LEMMA OutsideAtomic ==
  ASSUME Sound, UNCHANGED <<call, section, holder>>,
         xfer' = xfer \/ (xfer'.file = FALSE /\ xfer.file = FALSE),
         \A f \in Guarded : node'[f] = node[f]
  PROVE  AtomicStep
<1>1. \A q \in Procs : Writing(q)' = Writing(q)
  BY DEF Writing
<1>2. BeingWritten' = BeingWritten
  BY <1>1, WritersSame
<1>3. Settled' = Settled
  BY <1>2, SettledSame
<1> QED BY <1>2, <1>3 DEF AtomicStep, Clients, Inside

LEMMA NextAtomic ==
  ASSUME Sound, LockHeld, Right, Sound', Right', [Next]_vars
  PROVE  AtomicStep
<1>1. ASSUME NEW p \in Procs, ~Busy(p), UNCHANGED <<netVars, serviceVars, mix>>,
             \/ Reads(p) \/ Writes(p) \/ Unzips(p) \/ FileStep(p)
             \/ LockOpens(p) \/ FlockFails(p) \/ Flock(p) \/ FuncReturns(p) \/ FuncThrows(p)
      PROVE  AtomicStep
  <2>1. xfer' = xfer
    BY <1>1 DEF netVars
  <2> QED BY <1>1, <2>1, CallBeginsAtomic, FileStepAtomic, LockAtomic
<1>2. ASSUME NEW fn \in Requests, Request(fn) PROVE AtomicStep
  <2>1. xfer'.file = FALSE /\ xfer.file = FALSE
    BY <1>2 DEF Request, Transfer, NoTransfer, CallerFree, Sound, TransferSound, Xfer
  <2> QED BY <1>2, <2>1, OutsideAtomic DEF Request, filesVars
<1>3. CASE Serves
  <2>1. UNCHANGED <<call, section, holder, xfer>> /\ (node' = node \/ node' = [node EXCEPT ![LogDir] = Directory])
    BY <1>3 DEF Serves, ServiceNext, Launch, TestLogDir, Mkdirs, MkdirsFails, Start, AskedToQuit,
                Answer, filesVars, netVars
  <2>2. \A f \in Guarded : node'[f] = node[f]
    BY <2>1, ServiceAssumption, FilesAssumption DEF Sound, FilesTyped
  <2> QED BY <2>1, <2>2, OutsideAtomic
<1>4. CASE UNCHANGED vars
  BY <1>4, OutsideAtomic DEF vars, filesVars, netVars
<1> QED BY <1>1, <1>2, <1>3, <1>4, KillAtomic, TransferBeginsAtomic, TransferStepAtomic, Steps

LEMMA InitAtomic == Init => Atomic!Init
<1> SUFFICES ASSUME Init PROVE Atomic!Init
  OBVIOUS
<1>1. /\ \A p \in Procs : call[p] = NoCall /\ section[p] = "out"
      /\ holder = Nobody /\ xfer = NoTransfer
      /\ \A f \in Guarded : node[f] = Absent
  BY FilesAssumption DEF Init, FilesInit, NetInit
<1>2. NoCall.pc = "over" /\ NoTransfer.file = FALSE /\ Absent.data = <<>>
  BY DEF NoCall, NoTransfer, Absent
<1>3. BeingWritten = {} /\ Inside = {}
  BY <1>1, <1>2 DEF BeingWritten, Writing, Inside
<1>4. Settled = [f \in Guarded |-> <<>>]
  BY <1>1, <1>2 DEF Settled
<1>5. Clients = [p \in Procs |-> Atomic!Idle]
  BY <1>1, SeenOfNoCall DEF Clients
<1> QED BY <1>1, <1>3, <1>4, <1>5 DEF Atomic!Init

LEMMA InitDescriptors == Init => DescriptorsExplained
<1>1. NoCall.pc = "over" /\ NoTransfer.file = FALSE
  BY DEF NoCall, NoTransfer
<1> QED BY <1>1 DEF Init, FilesInit, NetInit, DescriptorsExplained, One, Opened

----------------------------------------------------------------------------
(* Theorems *)

(* The files, the calls, the lock, the descriptors and the transfer stay   *)
(* what the code makes of them: a call of file_read or file_write is on a  *)
(* file and never past what it reads or writes, a transfer has its file    *)
(* open from its first to its last step and its process is in no other     *)
(* call (file_utils.cpp, net_utils.cpp).                                   *)
THEOREM TypesCorrect == Spec => []Sound
<1>1. Init => Sound
  BY InitSound
<1>2. Sound /\ [Next]_vars => Sound'
  BY NextSound
<1> QED BY <1>1, <1>2, PTL DEF Spec

(* A call closes what it opened on every way out, and only lock_file keeps *)
(* a descriptor (file_utils.cpp 119-327).                                  *)
THEOREM DescriptorsAreExplained == Spec => []DescriptorsExplained
<1>1. Init => DescriptorsExplained
  BY InitDescriptors
<1>2. Sound /\ DescriptorsExplained /\ [Next]_vars => DescriptorsExplained'
  BY NextDescriptors
<1> QED BY <1>1, <1>2, TypesCorrect, PTL DEF Spec

(* No service runs without its log directory, and mkdirs fails a start     *)
(* without another reason only where the directory was made while the      *)
(* process was starting up (search/main.cpp 162-170).                      *)
THEOREM StartUpIsRight == Spec => []StartUpOutcome
<1>1. Init => StartUpInv
  BY InitStartUp
<1>2. Sound /\ StartUpInv /\ [Next]_vars => StartUpInv'
  BY NextStartUp
<1>3. StartUpInv => StartUpOutcome
  BY StartUpOutcomeFollows
<1> QED BY <1>1, <1>2, <1>3, TypesCorrect, PTL DEF Spec

(* Whoever is inside lock_file has the lock, and whoever has a guarded     *)
(* file open is inside (file_utils.cpp 310-327).                           *)
THEOREM LockIsHeld == Spec => []LockHeld
<1>1. Init => LockHeld
  BY InitLock
<1>2. Sound /\ LockHeld /\ [Next]_vars => LockHeld'
  BY NextLock
<1> QED BY <1>1, <1>2, TypesCorrect, PTL DEF Spec

(* Where the lock is held everything read and written is right.            *)
LEMMA RightAlways == Spec => []Right
<1>1. Init => Right
  BY InitRight
<1>2. Sound /\ LockHeld /\ Right /\ [Next]_vars => Right'
  BY NextRight
<1> QED BY <1>1, <1>2, TypesCorrect, LockIsHeld, PTL DEF Spec

LEMMA WholeAlways == Spec => [](NoTornRead /\ WholeAfterSuccess)
<1>1. Sound /\ Right => NoTornRead /\ WholeAfterSuccess
  BY RightFollows
<1> QED BY <1>1, TypesCorrect, RightAlways, PTL

(* A file used only inside lock_file is never read torn: what a reader     *)
(* gets is what a writer wrote, or its beginning, whoever was killed and   *)
(* whatever disk or connection failed (file_utils.cpp 119-223, 310-327).   *)
THEOREM GuardedReadsAreWhole == Spec => []NoTornRead
BY WholeAlways, PTL

(* A file used only inside lock_file is whole when its last writing or its *)
(* download reports success, unless the disk was full (file_utils.cpp      *)
(* 176-223, net_utils.cpp).                                                *)
THEOREM GuardedWritesAreWhole == Spec => []WholeAfterSuccess
BY WholeAlways, PTL

(* To processes that use files only inside lock_file, the helpers and the  *)
(* downloads are operations that take effect at once, func runs in one of  *)
(* them at a time, and a kill leaves a file as if the writer had stopped   *)
(* writing: the code implements AtomicFiles (file_utils.cpp 85-223,        *)
(* 310-327, net_utils.cpp).                                                *)
THEOREM FilesImplementAtomicFiles == Spec => ImplementsAtomicFiles
<1>1. Init => Atomic!Init
  BY InitAtomic
<1>2. Sound /\ LockHeld /\ Right /\ Sound' /\ Right' /\ [Next]_vars
      => [Atomic!Next]_(Atomic!vars)
  BY NextAtomic DEF AtomicStep, Atomic!vars
<1> QED BY <1>1, <1>2, TypesCorrect, LockIsHeld, RightAlways, PTL
        DEF Spec, ImplementsAtomicFiles, Atomic!Spec

(* The buffers a caller passes to the requests again and again hold what   *)
(* the answers say, however each request ended (net_utils.cpp).            *)
THEOREM BuffersAreRight == Spec => []BuffersHoldAnswers
<1>1. Init => BuffersInv
  BY InitBuffers
<1>2. Sound /\ BuffersInv /\ [Next]_vars => BuffersInv'
  BY NextBuffers
<1>3. BuffersInv => BuffersHoldAnswers
  BY BuffersFollow
<1> QED BY <1>1, <1>2, <1>3, TypesCorrect, PTL DEF Spec
============================================================================
