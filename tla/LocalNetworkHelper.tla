------------------------ MODULE LocalNetworkHelper ------------------------
(***************************************************************************)
(* The "Local Network" permission helper (pkg/localnetworkhelper).  The    *)
(* server has dropped its privileges and lets a child process dial for it: *)
(* PrivilegedDialContext hands a request to the goroutine handleRequests,  *)
(* which writes it to a stream socket; the child (Serve) starts a          *)
(* goroutine per request, which dials and sends back the result and, on    *)
(* success, the descriptor of the connection; the goroutine                *)
(* handleResponses finds the request by its token and replies.             *)
(*                                                                         *)
(* Messages are JSON texts without framing.  One read returns all that has *)
(* arrived, up to the size of the buffer, except that on a stream socket   *)
(* descriptors end a segment: by POSIX, and on macOS, in front of the      *)
(* message that carries one; on Linux behind it.                           *)
(***************************************************************************)
EXTENDS Naturals, Sequences, FiniteSets

CONSTANTS
  Dials,      \* calls of PrivilegedDialContext; also their requests' tokens
  Capacity,   \* messages that the socket holds in either direction
  Buffer,     \* whole messages that fit into a 4096-byte read buffer
  OOBFirst,   \* a descriptor arrives with the first message of a read
  MayDie,     \* the child may be killed
  None, Failed, Canceled

ASSUME SizesType == Capacity \in Nat \ {0} /\ Buffer \in Nat \ {0}
ASSUME FlagsType == OOBFirst \in BOOLEAN /\ MayDie \in BOOLEAN
ASSUME ValuesApart == /\ {None, Failed, Canceled} \cap Dials = {}
                      /\ None \notin {Failed, Canceled} /\ Failed # Canceled

VARIABLES
  dial,       \* dial[d]: where the call is
  ctxDone,    \* the calls whose context has ended
  result,     \* result[d]: the connection (named after the dial that made it)
  sender,     \* handleRequests: <<its position, the request it has>>
  processed,  \* requestsProcessed
  requests,   \* bytes on the way to the child
  handler,    \* handler[d]: the child's goroutine for d
  outcome,    \* outcome[d]: how the child's net.Dial ended
  responses,  \* bytes on the way back
  batch,      \* handleResponses: what is left of its last read,
  oob,        \*   the descriptor that came with that read, or None,
  first,      \*   whether nothing of that read was decoded yet (i == 0),
  torn,       \*   whether that read ends inside a message
  reply,      \* reply[d]: what is in ReplyCh
  serving,    \* the child's Serve has not returned
  alive,      \* the child runs
  failed,     \* localNetworkHelper.err is set
  reading,    \* handleResponses runs
  closed      \* Close was called

callVars == <<dial, ctxDone, result>>
childVars == <<handler, outcome, serving, alive>>
readVars == <<batch, oob, first, torn, reading>>
vars == <<callVars, sender, processed, requests, childVars, responses, readVars,
          reply, failed, closed>>

Init == /\ dial = [d \in Dials |-> "new"]
        /\ ctxDone = {}
        /\ result = [d \in Dials |-> None]
        /\ sender = <<"receive", None>>
        /\ processed = {}
        /\ requests = <<>>
        /\ handler = [d \in Dials |-> "none"]
        /\ outcome = [d \in Dials |-> "none"]
        /\ responses = <<>>
        /\ batch = <<>> /\ oob = None /\ first = FALSE /\ torn = FALSE
        /\ reply = [d \in Dials |-> None]
        /\ serving = TRUE /\ alive = TRUE /\ failed = FALSE /\ reading = TRUE /\ closed = FALSE
-----------------------------------------------------------------------------
(* PrivilegedDialContext.  Dialing after Close is the caller's mistake. *)

Return(d, value) == /\ dial' = [dial EXCEPT ![d] = "done"]
                    /\ result' = [result EXCEPT ![d] = value]

DialRefused(d) == /\ dial[d] = "new" /\ ~ closed
                  /\ failed
                  /\ Return(d, Failed)
                  /\ UNCHANGED <<ctxDone, sender, processed, requests, childVars,
                                 responses, readVars, reply, failed, closed>>

DialSend(d) == /\ dial[d] = "new" /\ ~ closed
               /\ ~ failed
               /\ dial' = [dial EXCEPT ![d] = "send"]
               /\ UNCHANGED <<ctxDone, result, sender, processed, requests, childVars,
                              responses, readVars, reply, failed, closed>>

Cancel(d) == /\ dial[d] \in {"send", "wait"} /\ d \notin ctxDone
             /\ ctxDone' = ctxDone \cup {d}
             /\ UNCHANGED <<dial, result, sender, processed, requests, childVars,
                            responses, readVars, reply, failed, closed>>

DialReply(d) == /\ dial[d] = "wait"
                /\ reply[d] # None
                /\ Return(d, reply[d])
                /\ UNCHANGED <<ctxDone, sender, processed, requests, childVars,
                               responses, readVars, reply, failed, closed>>

(* Mutant: the context is not watched while the reply is awaited. *)
DialCanceledLate(d) ==
  /\ dial[d] = "wait"
  /\ d \in ctxDone /\ reply[d] # None
  /\ Return(d, Canceled)
  /\ UNCHANGED <<ctxDone, sender, processed, requests, childVars, responses,
                 readVars, reply, failed, closed>>

DialCanceled(d) == /\ dial[d] = "wait"
                   /\ d \in ctxDone
                   /\ Return(d, Canceled)
                   /\ UNCHANGED <<ctxDone, sender, processed, requests, childVars,
                                  responses, readVars, reply, failed, closed>>
-----------------------------------------------------------------------------
(* handleRequests.  The channel is unbuffered: both sides move at once. *)

Receive(d) == /\ dial[d] = "send"
              /\ sender[1] = "receive"
              /\ dial' = [dial EXCEPT ![d] = "wait"]
              /\ sender' = <<"store", d>>
              /\ UNCHANGED <<ctxDone, result, processed, requests, childVars,
                             responses, readVars, reply, failed, closed>>

(* Mutant: the request is not marked as processed before it is sent. *)
StoreRequestLate == /\ sender[1] = "store"
                    /\ sender' = <<"write", sender[2]>>
                    /\ UNCHANGED <<callVars, processed, requests, childVars, responses,
                                   readVars, reply, failed, closed>>

StoreRequest == /\ sender[1] = "store"
                /\ processed' = processed \cup {sender[2]}
                /\ sender' = <<"write", sender[2]>>
                /\ UNCHANGED <<callVars, requests, childVars, responses, readVars,
                               reply, failed, closed>>

WriteRequest == /\ sender[1] = "write"
                /\ alive /\ ~ closed
                /\ Len(requests) < Capacity
                /\ requests' = Append(requests, sender[2])
                /\ sender' = <<"receive", None>>
                /\ UNCHANGED <<callVars, processed, childVars, responses, readVars,
                               reply, failed, closed>>

(* Mutant: the error of the context is replied. *)
WriteRequestFailCanceled ==
  /\ sender[1] = "write"
  /\ ~ alive \/ closed
  /\ processed' = processed \ {sender[2]}
  /\ reply' = [reply EXCEPT ![sender[2]] = Canceled]
  /\ sender' = <<"receive", None>>
  /\ UNCHANGED <<callVars, requests, childVars, responses, readVars, failed, closed>>

WriteRequestFail ==
  /\ sender[1] = "write"
  /\ ~ alive \/ closed
  /\ processed' = processed \ {sender[2]}
  /\ reply' = [reply EXCEPT ![sender[2]] = Failed]
  /\ sender' = <<"receive", None>>
  /\ UNCHANGED <<callVars, requests, childVars, responses, readVars, failed, closed>>
-----------------------------------------------------------------------------
(* The child. *)

(* A goroutine is started for each of the first n requests that arrived. *)
StartHandlers(n) ==
  /\ handler' = [d \in Dials |-> IF \E i \in 1 .. n : requests[i] = d
                                 THEN "dial" ELSE handler[d]]
  /\ requests' = SubSeq(requests, n + 1, Len(requests))

(* Mutant: of several requests in a read only the first is decoded. *)
ServeReadFirst ==
  /\ alive /\ serving
  /\ Len(requests) \in 1 .. Buffer
  /\ handler' = [handler EXCEPT ![requests[1]] = "dial"]
  /\ requests' = <<>>
  /\ UNCHANGED <<callVars, sender, processed, outcome, serving, alive, responses,
                 readVars, reply, failed, closed>>

(* Serve reads requests and decodes them all. *)
ServeRead ==
  /\ alive /\ serving
  /\ Len(requests) \in 1 .. Buffer
  /\ StartHandlers(Len(requests))
  /\ UNCHANGED <<callVars, sender, processed, outcome, serving, alive, responses,
                 readVars, reply, failed, closed>>

(* The buffer ends inside a request: when it has decoded those before it,  *)
(* Serve returns the decoder's error.                                      *)
ServeTorn ==
  /\ alive /\ serving
  /\ Len(requests) > Buffer
  /\ StartHandlers(Buffer)
  /\ serving' = FALSE
  /\ UNCHANGED <<callVars, sender, processed, outcome, alive, responses, readVars,
                 reply, failed, closed>>

(* Serve reads EOF, or the goroutines' error is found. *)
ServeEnd == /\ alive /\ serving
            /\ closed
            /\ serving' = FALSE
            /\ UNCHANGED <<callVars, sender, processed, requests, handler, outcome, alive,
                           responses, readVars, reply, failed, closed>>

(* The process ends, some time after Serve has returned, *)
Exit == /\ alive' = FALSE /\ serving' = FALSE
        /\ handler' = [d \in Dials |-> "none"]
        /\ requests' = <<>>
        /\ UNCHANGED <<callVars, sender, processed, outcome, responses, readVars,
                       reply, failed, closed>>

ServeExit == alive /\ ~ serving /\ Exit

(* or is killed. *)
Die == MayDie /\ alive /\ Exit

(* handleRequest in the child: net.Dial, *)
HandlerDial(d, how) ==
  /\ handler[d] = "dial"
  /\ handler' = [handler EXCEPT ![d] = "write"]
  /\ outcome' = [outcome EXCEPT ![d] = how]
  /\ UNCHANGED <<callVars, sender, processed, requests, serving, alive, responses,
                 readVars, reply, failed, closed>>

(* Mutant: a failed net.Dial is not reported. *)
HandlerWriteDialed(d) ==
  /\ handler[d] = "write"
  /\ IF closed \/ outcome[d] = "error" THEN UNCHANGED responses
     ELSE /\ Len(responses) < Capacity
          /\ responses' = Append(responses, d)
  /\ handler' = [handler EXCEPT ![d] = "none"]
  /\ UNCHANGED <<callVars, sender, processed, requests, outcome, serving, alive,
                 readVars, reply, failed, closed>>

(* and WriteMsgUnix, with the descriptor if there is one. *)
HandlerWrite(d) ==
  /\ handler[d] = "write"
  /\ IF closed THEN UNCHANGED responses
     ELSE /\ Len(responses) < Capacity
          /\ responses' = Append(responses, d)
  /\ handler' = [handler EXCEPT ![d] = "none"]
  /\ UNCHANGED <<callVars, sender, processed, requests, outcome, serving, alive,
                 readVars, reply, failed, closed>>
-----------------------------------------------------------------------------
(* handleResponses *)

HasFD(d) == outcome[d] = "ok"

(* The number of messages that one ReadMsgUnix returns: as many as there   *)
(* are, but a message with a descriptor begins (ends) a segment.           *)
SegmentLen ==
  LET Breaks(i) == IF OOBFirst THEN HasFD(responses[i + 1]) ELSE HasFD(responses[i])
  IN  CHOOSE n \in 1 .. Len(responses) :
        /\ n = Len(responses) \/ Breaks(n)
        /\ \A i \in 1 .. n - 1 : ~ Breaks(i)

ReadResponses ==
  LET n == SegmentLen
      size == IF n > Buffer THEN Buffer ELSE n
      fds == {d \in Dials : HasFD(d) /\ \E i \in 1 .. n : responses[i] = d}
  IN  /\ reading /\ batch = <<>> /\ ~ torn /\ ~ closed
      /\ responses # <<>>
      /\ batch' = SubSeq(responses, 1, size)
      /\ torn' = (n > Buffer)
      /\ responses' = SubSeq(responses, n + 1, Len(responses))
      /\ oob' = IF fds = {} THEN None ELSE CHOOSE d \in fds : TRUE
      /\ first' = TRUE
      /\ UNCHANGED <<callVars, sender, processed, requests, childVars, reading, reply,
                     failed, closed>>

(* Mutant: the responses behind the first one use the oob. *)
OutcomeLater(d) == IF HasFD(d) /\ ~ first /\ oob # None THEN oob ELSE Failed

(* handleResponse: only the first response of a read may use its oob. *)
Outcome(d) == IF HasFD(d) /\ first /\ oob # None THEN oob ELSE Failed

StopReading == /\ reading' = FALSE
               /\ batch' = <<>> /\ oob' = None /\ first' = FALSE /\ torn' = FALSE
               /\ UNCHANGED <<callVars, sender, processed, requests, childVars,
                              responses, reply, closed>>

(* Mutant: the reply goes to some request, not to the token's. *)
HandleResponseAny ==
  /\ reading /\ batch # <<>>
  /\ \E d \in processed : /\ processed' = processed \ {d}
                          /\ reply' = [reply EXCEPT ![d] = Outcome(Head(batch))]
  /\ batch' = Tail(batch)
  /\ first' = FALSE
  /\ oob' = None
  /\ UNCHANGED <<callVars, sender, requests, childVars, responses, torn, reading,
                 failed, closed>>

(* The reply goes to the request of the token; a response without a request *)
(* ends the loop,                                                           *)
HandleResponse ==
  /\ reading /\ batch # <<>>
  /\ IF Head(batch) \in processed
     THEN /\ processed' = processed \ {Head(batch)}
          /\ reply' = [reply EXCEPT ![Head(batch)] = Outcome(Head(batch))]
          /\ batch' = Tail(batch)
          /\ first' = FALSE
          /\ oob' = None
          /\ UNCHANGED <<callVars, sender, requests, childVars, responses, torn,
                         reading, failed, closed>>
     ELSE failed' = TRUE /\ StopReading

(* and so do a message cut off by the end of the buffer, *)
HandleTorn == /\ reading /\ batch = <<>> /\ torn
              /\ failed' = TRUE
              /\ StopReading

(* the end of the stream, and a closed socket. *)
ReadEnd == /\ reading /\ batch = <<>> /\ ~ torn
           /\ closed \/ (~ alive /\ responses = <<>>)
           /\ failed' = (failed \/ ~ closed)
           /\ StopReading

(* The goroutine that waits for the child. *)
ChildExited == /\ ~ alive /\ ~ closed /\ ~ failed
               /\ failed' = TRUE
               /\ UNCHANGED <<callVars, sender, processed, requests, childVars,
                              responses, readVars, reply, closed>>

(* Close, once no call is in progress. *)
Close == /\ ~ closed
         /\ \A d \in Dials : dial[d] \in {"new", "done"}
         /\ closed' = TRUE
         /\ UNCHANGED <<callVars, sender, processed, requests, childVars, responses,
                        readVars, reply, failed>>
-----------------------------------------------------------------------------
DialStep(d) == DialReply(d) \/ DialCanceled(d) \/ Receive(d)
SendStep == StoreRequest \/ WriteRequest \/ WriteRequestFail
ReadStep == ReadResponses \/ HandleResponse \/ HandleTorn \/ ReadEnd
              \/ ChildExited
ServeStep == ServeRead \/ ServeTorn \/ ServeEnd \/ ServeExit
HandlerStep(d) == HandlerWrite(d) \/ \E how \in {"ok", "error"} : HandlerDial(d, how)

Next == \/ \E d \in Dials : \/ DialRefused(d) \/ DialSend(d) \/ Cancel(d)
                            \/ DialStep(d) \/ HandlerStep(d)
        \/ SendStep \/ ReadStep \/ ServeStep \/ Die \/ Close

Spec == Init /\ [][Next]_vars

(* The server's goroutines run, and a channel serves its senders in turn. *)
ServerFairness == /\ \A d \in Dials : WF_vars(DialReply(d) \/ DialCanceled(d))
                  /\ \A d \in Dials : SF_vars(Receive(d))
                  /\ WF_vars(SendStep) /\ WF_vars(ReadStep)

(* The child's goroutines run, too, and every net.Dial ends. *)
ChildFairness == WF_vars(ServeStep) /\ \A d \in Dials : WF_vars(HandlerStep(d))

ServerFairSpec == Spec /\ ServerFairness
FairSpec == Spec /\ ServerFairness /\ ChildFairness
-----------------------------------------------------------------------------
(* Type correctness of the state. *)
TypeOK == /\ dial \in [Dials -> {"new", "send", "wait", "done"}]
          /\ ctxDone \subseteq Dials
          /\ result \in [Dials -> Dials \cup {None, Failed, Canceled}]
          /\ sender \in {"receive", "store", "write"} \X (Dials \cup {None})
          /\ processed \subseteq Dials
          /\ requests \in Seq(Dials) /\ Len(requests) <= Capacity
          /\ handler \in [Dials -> {"none", "dial", "write"}]
          /\ outcome \in [Dials -> {"none", "ok", "error"}]
          /\ responses \in Seq(Dials) /\ Len(responses) <= Capacity
          /\ batch \in Seq(Dials) /\ Len(batch) <= Buffer
          /\ oob \in Dials \cup {None}
          /\ first \in BOOLEAN /\ torn \in BOOLEAN
          /\ reply \in [Dials -> Dials \cup {None, Failed}]
          /\ serving \in BOOLEAN /\ alive \in BOOLEAN /\ failed \in BOOLEAN
          /\ reading \in BOOLEAN /\ closed \in BOOLEAN

(* A caller is given the connection that was dialed for it, never that of  *)
(* another call, although replies overtake each other and are read several *)
(* at a time.                                                              *)
RightConnection == \A d \in Dials : result[d] \in Dials => result[d] = d

(* A connection that the child made is never reported as a failure:        *)
(* "oob will be only valid for the first response".                        *)
DialedIsDelivered == \A d \in Dials : outcome[d] = "ok" => reply[d] # Failed

Within(s) == {s[i] : i \in 1 .. Len(s)}

(* No call is forgotten: a call that waits is somewhere on its way as long *)
(* as the child lives and its responses are read.                          *)
NoCallForgotten ==
  \A d \in Dials : dial[d] = "wait" /\ reply[d] = None /\ alive /\ reading =>
    \/ sender[2] = d
    \/ /\ d \in processed
       /\ \/ d \in Within(requests) \cup Within(responses) \cup Within(batch)
          \/ handler[d] # "none"

(* handleResponses does not trip up: only the end of the child or Close    *)
(* ends it.                                                                *)
ReaderEndsWithChild == ~ reading => ~ alive \/ closed

(* Every call returns, with a connection or an error, as long as the child *)
(* lives and its responses are read.                                       *)
DialsEnd == \A d \in Dials :
  dial[d] = "send" ~> dial[d] = "done" \/ ~ alive \/ ~ reading

(* A call returns when its context ends. *)
CancelEndsDial == \A d \in Dials : d \in ctxDone ~> dial[d] = "done"
=============================================================================
