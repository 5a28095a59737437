--------------------------- MODULE NetTransfers ---------------------------
(***************************************************************************)
(* The transfers of common/net_utils.cpp: net_crawl_url, net_post_url,     *)
(* net_put_url and net_del_url into buffers of the caller, the SFTP upload *)
(* and download and net_download_file from and into shared files.  One     *)
(* process is the caller; without an answer it tries again with the same   *)
(* buffers.                                                                *)
(*                                                                         *)
(* libcurl is external: curl_easy_perform calls back for each header, of   *)
(* redirections too, and for each block, and may end with an error (a      *)
(* timeout, a broken connection) after any of them.  The long lists of     *)
(* options are one step that succeeds or fails.                            *)
(***************************************************************************)
EXTENDS SharedFiles

CONSTANTS Caller,
          Keys, Values,  \* of response headers
          Remote,        \* the blocks of a response or of a remote file
          Codes,         \* HTTP status codes
          CurlErrors,    \* of curl_easy_perform
          MaxAnswers     \* bound: the requests the caller performs

OK == 0
ASSUME NetAssumption == Caller \in Procs /\ OK \notin CurlErrors \union Values /\ Remote \in Seq(Nat \ {NUL})

VARIABLES
  xfer,      \* the transfer, or what the last one returned
  buf,       \* the caller's buf
  lines,     \* *vec_result_buf
  code,      \* *http_code
  headers,   \* *resp_headers
  answers    \* record of the requests performed so far

netVars == <<xfer, buf, lines, code, headers, answers>>
buffers == <<buf, lines, code, headers, answers>>

Uploads   == {"sftp_upload"}
Downloads == {"sftp_download", "download"}
Requests  == {"crawl", "post", "stream", "put", "del"}  \* "stream": a post with an event-stream header
Appending == {"crawl", "put", "del"}
NoHeaders == [k \in Keys |-> 0]

NoTransfer == [fn |-> "none", pc |-> "over", path |-> NoCall.path, file |-> FALSE,
               received |-> <<>>, got |-> NoHeaders]
Transfer(fn, f, pc) == [NoTransfer EXCEPT !.fn = fn, !.path = f, !.pc = pc]

NetInit == /\ xfer = NoTransfer
           /\ buf = <<>> /\ lines = <<>> /\ code = 0 /\ headers = NoHeaders
           /\ answers = <<>>

CallerFree == Free(Caller) /\ xfer.pc = "over"

(* Every way out closes the file and frees the handle and the list of      *)
(* headers, which no other process sees.  A call refused before it has     *)
(* opened anything (an empty argument, no handle, no file) changes nothing *)
(* and is not a step.                                                      *)
Leave ==
  /\ xfer' = NoTransfer
  /\ fds' = IF xfer.file THEN [fds EXCEPT ![Caller] = @ - 1] ELSE fds

----------------------------------------------------------------------------
(* Up to curl_easy_perform *)

(* curl_easy_init and the list of headers.                                 *)
Request(fn) ==
  /\ CallerFree /\ Len(answers) < MaxAnswers
  /\ xfer' = Transfer(fn, NoCall.path, "options")
  /\ UNCHANGED <<filesVars, buffers>>

(* A transfer of a file opens it first, an upload after stat.              *)
OpenForTransfer(fn, f) ==
  /\ CallerFree /\ MayUse(Caller, f) /\ CanOpen(Caller)
  /\ fn \in Uploads => node[f].kind = "file"
  /\ IF fn \in Downloads
     THEN node' = [node EXCEPT ![f] = File(<<>>)] /\ fate' = [fate EXCEPT ![f] = "open"]
     ELSE UNCHANGED <<node, fate>>
  /\ fds' = [fds EXCEPT ![Caller] = @ + 1]
  /\ xfer' = [Transfer(fn, f, "opened") EXCEPT !.file = TRUE]
  /\ UNCHANGED <<call, section, holder, kept, threw, buffers>>

Told(ret) == IF xfer.fn \in Downloads
             THEN fate' = [fate EXCEPT ![xfer.path] = IF ret = OK THEN "whole" ELSE "failed"]
             ELSE fate' = fate

HandleFails ==
  /\ xfer.pc = "opened"
  /\ Leave /\ Told(-1)
  /\ UNCHANGED <<node, call, section, holder, kept, threw, buffers>>
HandleReady ==
  /\ xfer.pc = "opened"
  /\ xfer' = [xfer EXCEPT !.pc = "options"]
  /\ UNCHANGED <<filesVars, buffers>>

(* net_del_url sets the options of its body in a second step.              *)
OptionsFail ==
  /\ xfer.pc = "options"
  /\ \E ret \in IF xfer.fn = "del" THEN {-2, -3} ELSE {-2} : Leave /\ Told(ret)
  /\ UNCHANGED <<node, call, section, holder, kept, threw, buffers>>
OptionsSet ==
  /\ xfer.pc = "options"
  /\ xfer' = [xfer EXCEPT !.pc = "perform"]
  /\ UNCHANGED <<filesVars, buffers>>

----------------------------------------------------------------------------
(* curl_easy_perform *)

(* _ReadFunction for a header.                                             *)
Header(k, v) ==
  /\ xfer.pc = "perform" /\ xfer.fn \in Requests /\ xfer.received = <<>>
  /\ xfer' = [xfer EXCEPT !.got[k] = v]
  /\ UNCHANGED <<filesVars, buffers>>

(* _ReadFunction or _WriteFileCallback for a block of the answer,          *)
(* _ReadFileCallback for a block of the file.                              *)
Source == IF xfer.fn \in Uploads THEN node[xfer.path].data ELSE Remote
Block ==
  /\ xfer.pc = "perform" /\ Len(xfer.received) < Len(Source)
  /\ LET k == Len(xfer.received) + 1 IN
     /\ xfer' = [xfer EXCEPT !.received = Append(@, Source[k])]
     /\ node' = IF xfer.fn \in Downloads
                THEN [node EXCEPT ![xfer.path].data = Written(@, k, Source[k])] ELSE node
     /\ buf' = IF xfer.fn \in Appending THEN Append(buf, Source[k]) ELSE buf
  /\ UNCHANGED <<call, section, holder, fds, kept, threw, fate, lines, code, headers, answers>>

(* It returns: the answer is complete, or cut anywhere and ret says so.    *)
(* net_post_url alone keeps the body in tmp_buf until here, and hands it   *)
(* over whatever ret is; the headers go into the caller's map one by one.  *)
Ends(ret) == ret = OK => Len(xfer.received) >= Len(Source)

HandOverOnSuccess(ret) ==             \* mutant: a failed post leaves the buffer as it was
  CASE xfer.fn = "post" /\ ret = OK   -> buf' = xfer.received /\ lines' = lines
    [] xfer.fn = "stream" /\ ret = OK -> lines' = xfer.received /\ buf' = buf
    [] OTHER                          -> UNCHANGED <<buf, lines>>
HandOver(ret) ==
  CASE xfer.fn = "post"   -> buf' = xfer.received /\ lines' = lines
    [] xfer.fn = "stream" -> lines' = xfer.received /\ buf' = buf
    [] OTHER              -> UNCHANGED <<buf, lines>>

Merged(old, got) == [k \in Keys |-> IF got[k] # 0 THEN got[k] ELSE old[k]]

RequestReturns(ret, c) ==
  /\ xfer.pc = "perform" /\ xfer.fn \in Requests /\ Ends(ret)
  /\ Leave /\ HandOver(ret)
  /\ code' = IF ret = OK THEN c ELSE code
  /\ headers' = Merged(headers, xfer.got)
  /\ answers' = Append(answers, [fn |-> xfer.fn, received |-> xfer.received, got |-> xfer.got,
                                 ret |-> ret, code |-> c])
  /\ UNCHANGED <<node, call, section, holder, kept, threw, fate>>

FileReturns(ret) ==
  /\ xfer.pc = "perform" /\ xfer.fn \notin Requests /\ Ends(ret)
  /\ Leave /\ Told(ret)
  /\ UNCHANGED <<node, call, section, holder, kept, threw, buffers>>

(* A FILE* still flushes when it is closed; on a full disk that fails in   *)
(* silence, as in file_write.                                              *)
FlushFails ==
  /\ xfer.pc = "perform" /\ xfer.fn \in Downloads /\ Len(xfer.received) = Len(Remote)
  /\ Leave
  /\ node' = [node EXCEPT ![xfer.path].data = SubSeq(@, 1, Len(@) - 1)]
  /\ fate' = [fate EXCEPT ![xfer.path] = "disk full"]
  /\ UNCHANGED <<call, section, holder, kept, threw, buffers>>

TransferStep ==
  \/ HandleFails \/ HandleReady \/ OptionsFail \/ OptionsSet \/ Block \/ FlushFails
  \/ \E ret \in CurlErrors \union {OK} : FileReturns(ret) \/ \E c \in Codes : RequestReturns(ret, c)
  \/ \E k \in Keys, v \in Values : Header(k, v)

(* A killed caller takes its buffers with it.                              *)
CallerKilled ==
  /\ xfer' = NoTransfer
  /\ buf' = <<>> /\ lines' = <<>> /\ code' = 0 /\ headers' = NoHeaders /\ answers' = <<>>

----------------------------------------------------------------------------
(* However the requests ended, the caller's buffers are what the answers   *)
(* say: the last post replaced what was there, also by half an answer;     *)
(* every other request added to it, so that a second try stands behind the *)
(* half of the first; the code is that of the last request that succeeded, *)
(* and a header keeps the value of an earlier answer that had it.          *)
Since(n) == {k \in DOMAIN answers : k > n /\ answers[k].fn \in Appending}
LastOf(S) == IF S = {} THEN 0 ELSE CHOOSE k \in S : \A j \in S : j <= k
BuffersHoldAnswers ==
  LET post == LastOf({k \in DOMAIN answers : answers[k].fn = "post"})
      good == LastOf({k \in DOMAIN answers : answers[k].ret = OK})
      with(key) == LastOf({k \in DOMAIN answers : answers[k].got[key] # 0})
      running == IF xfer.pc = "perform" /\ xfer.fn \in Appending THEN xfer.received ELSE <<>>
  IN /\ buf = (IF post = 0 THEN <<>> ELSE answers[post].received)
              \o FlattenSeq([k \in DOMAIN answers |-> IF k \in Since(post) THEN answers[k].received ELSE <<>>])
              \o running
     /\ code = IF good = 0 THEN 0 ELSE answers[good].code
     /\ \A key \in Keys : headers[key] = IF with(key) = 0 THEN 0 ELSE answers[with(key)].got[key]
============================================================================
