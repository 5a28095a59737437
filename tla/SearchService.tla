--------------------------- MODULE SearchService ---------------------------
(***************************************************************************)
(* The service process of search/main.cpp: it may detach, makes its log    *)
(* directory with the file helpers, binds its port and answers requests,   *)
(* and several are started in the same directory.                          *)
(*                                                                         *)
(* brpc is external: Start fails while another process has the port.       *)
(***************************************************************************)
EXTENDS SharedFiles

CONSTANTS LogDir, Methods, Paths

ASSUME ServiceAssumption == LogDir \in Dirs

VARIABLES
  phase,     \* of each process: "off", "test", "make", "start", "serve", "gone"
  status,    \* the exit status whoever started it sees, Unknown before
  error,     \* why it is gone: "", "no directory" or "unsaid"
  reply,     \* its last answer
  overlap    \* those starting up when the log directory was made

serviceVars == <<phase, status, error, reply, overlap>>

Unknown == 1
NoReply == [code |-> 0, body |-> "none"]

ServiceInit == /\ phase = [p \in Procs |-> "off"]
               /\ status = [p \in Procs |-> Unknown]
               /\ error = [p \in Procs |-> ""]
               /\ reply = [p \in Procs |-> NoReply]
               /\ overlap = {}

(* The parent of a detached process leaves with 0 before anything is done. *)
Launch(p, daemonize) ==
  /\ phase[p] \in {"off", "gone"}
  /\ phase' = [phase EXCEPT ![p] = "test"]
  /\ status' = [status EXCEPT ![p] = IF daemonize THEN 0 ELSE Unknown]
  /\ error' = [error EXCEPT ![p] = ""]
  /\ reply' = [reply EXCEPT ![p] = NoReply]
  /\ overlap' = overlap \ {p}
  /\ UNCHANGED filesVars

(* return from main.                                                       *)
Exit(p, ret, why) ==
  /\ phase' = [phase EXCEPT ![p] = "gone"]
  /\ status' = [status EXCEPT ![p] = IF @ = Unknown THEN ret ELSE @]
  /\ error' = [error EXCEPT ![p] = why]

(* file_exist(FLAGS_log_dir)                                               *)
TestSkipped(p) ==                     \* mutant: mkdirs is called whether the directory is there or not
  /\ phase[p] = "test"
  /\ phase' = [phase EXCEPT ![p] = "make"]
  /\ UNCHANGED <<filesVars, status, error, reply, overlap>>
TestLogDir(p) ==
  /\ phase[p] = "test"
  /\ phase' = [phase EXCEPT ![p] = IF node[LogDir] = Absent THEN "make" ELSE "start"]
  /\ UNCHANGED <<filesVars, status, error, reply, overlap>>

(* mkdirs: create_directories answers false for a directory that exists,   *)
(* which is returned as -1 without an error text.                          *)
Mkdirs(p) ==
  /\ phase[p] = "make" /\ node[LogDir] = Absent
  /\ node' = [node EXCEPT ![LogDir] = Directory]
  /\ phase' = [phase EXCEPT ![p] = "start"]
  /\ overlap' = {q \in Procs : phase[q] \in {"test", "make"}}
  /\ UNCHANGED <<call, section, holder, fds, kept, threw, fate, status, error, reply>>
MkdirsFails(p) ==
  /\ phase[p] = "make"
  /\ Exit(p, -1, IF node[LogDir] = Absent THEN "no directory" ELSE "unsaid")
  /\ UNCHANGED <<filesVars, reply, overlap>>

Start(p) ==
  /\ phase[p] = "start"
  /\ IF \A q \in Procs : phase[q] # "serve"
     THEN phase' = [phase EXCEPT ![p] = "serve"] /\ UNCHANGED <<status, error>>
     ELSE Exit(p, -1, "")
  /\ UNCHANGED <<filesVars, reply, overlap>>

(* default_method: the bodies of the paths that are implemented, 400 for   *)
(* the rest, and an empty 200 for every OPTIONS and for infer.             *)
Implemented == {<<"POST", "infer">>, <<"POST", "upgrade">>, <<"POST", "noupgrade">>,
                <<"GET", "status.html">>, <<"GET", "system">>}
Respond(method, path) ==
  CASE method = "OPTIONS" \/ <<method, path>> = <<"POST", "infer">> -> [code |-> 200, body |-> "empty"]
    [] <<method, path>> = <<"GET", "system">> -> [code |-> 200, body |-> "version"]
    [] method # "OPTIONS" /\ <<method, path>> \notin Implemented -> [code |-> 400, body |-> "Not Implementation"]
    [] OTHER -> [code |-> 200, body |-> "ok"]
Answer(p, method, path) ==
  /\ phase[p] = "serve"
  /\ reply' = [reply EXCEPT ![p] = Respond(method, path)]
  /\ UNCHANGED <<filesVars, phase, status, error, overlap>>

AskedToQuit(p) ==
  /\ phase[p] = "serve"
  /\ Exit(p, 0, "")
  /\ UNCHANGED <<filesVars, reply, overlap>>

ServiceNext ==
  \E p \in Procs :
    \/ \E daemonize \in BOOLEAN : Launch(p, daemonize)
    \/ TestLogDir(p) \/ Mkdirs(p) \/ MkdirsFails(p) \/ Start(p) \/ AskedToQuit(p)
    \/ \E method \in Methods, path \in Paths : Answer(p, method, path)

ServiceKilled(p) ==
  /\ phase' = [phase EXCEPT ![p] = "off"]
  /\ status' = [status EXCEPT ![p] = Unknown] /\ error' = [error EXCEPT ![p] = ""]
  /\ reply' = [reply EXCEPT ![p] = NoReply]
  /\ overlap' = overlap \ {p}

----------------------------------------------------------------------------
(* A process fails on a log directory that exists only if the directory    *)
(* was made while it was starting up itself (163-165), and none goes on    *)
(* without the directory.                                                  *)
StartUpOutcome ==
  \A p \in Procs : /\ error[p] = "unsaid" => p \in overlap
                   /\ phase[p] \in {"start", "serve"} => node[LogDir] # Absent
============================================================================
