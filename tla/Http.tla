-------------------------------- MODULE Http --------------------------------
(***************************************************************************)
(* One HTTP connection: sockInput, process, execute and sockFlush of       *)
(* src/net/http.cc, with the poll loop that calls them and the clock.      *)
(*                                                                         *)
(* A packet is a sequence of complete lines, each of one of a few kinds,   *)
(* that may end in the beginning of a line.  In the body every line counts *)
(* as one unit of the content length.  Nothing else happens until          *)
(* sockInput has been through its packet.                                  *)
(***************************************************************************)
EXTENDS Naturals, Sequences

CONSTANTS Packets,     \* what the client may send at once
          BodyLength,  \* the content length it announces in a "length" line
          Timeout,     \* HTTP_REQUEST_TIMEOUT, in ticks of the clock
          MaxPackets   \* bound: how many packets it sends

VARIABLES
    hstate,     \* HTTPHandler::state
    length,     \* content_length: "none", "body" or "huge"
    body,       \* units of the body in `line'
    age,        \* time since `timeout' was set; Timeout + 1: it is 0
    input,      \* sockInput's buffer: what is left of the packet
    closed,     \* disconnect() was called
    polled,     \* the poll loop ran since the clock moved
    sent,       \* packets sent
    answers,    \* history: how many answers were written to the client
    executed,   \* history: how often the request was executed
    posted      \* history: a body was completed

httpVars == <<hstate, length, body, age, input, closed, polled, sent, answers, executed, posted>>

(* Kinds of lines: a request for a page, one with another method, one that *)
(* is not of three parts, an empty line, a header, a header that announces *)
(* a body or one too large, a header without ": ", and the beginning of a  *)
(* line whose end has not arrived.                                         *)
Lines == {"get", "put", "junk", "blank", "header", "length", "huge", "beginning"}

-----------------------------------------------------------------------------
Handler == [hstate |-> hstate, length |-> length, body |-> body,
            answers |-> answers, executed |-> executed, posted |-> posted]

(* Faulty: an error leaves the connection in the state it was in.          *)
MutErrorGoesOn(h) == [h EXCEPT !.answers = h.answers + 1]

(* httpError.                                                              *)
HttpError(h) == [h EXCEPT !.hstate = "ERROR", !.answers = h.answers + 1]

(* execute: the Lua hook fails, answers itself or leaves it to the files.  *)
(* `outcome' is the hook's and the file system's.                          *)
Outcomes == {"served", "not found", "hook failed"}
Execute(h, outcome) ==
    LET e == [h EXCEPT !.executed = h.executed + 1]
    IN IF outcome = "served" THEN [e EXCEPT !.answers = h.answers + 1] ELSE HttpError(e)

(* process in the states REQ and HEADER.                                   *)
ProcessRequest(h, l) ==
    CASE l = "blank" -> h
      [] l = "get"   -> [h EXCEPT !.hstate = "HEADER"]
      [] l = "put"   -> HttpError(h)
      [] OTHER       -> HttpError(h)

ProcessHeader(h, l, outcome) ==
    IF l = "blank"
    THEN CASE h.length = "huge" -> HttpError(h)
           [] h.length = "none" -> [Execute(h, outcome) EXCEPT !.hstate = "DONE"]
           [] h.length = "body" -> [h EXCEPT !.hstate = "BODY"]
    ELSE CASE l \in {"get", "put", "junk"} -> HttpError(h)
           [] l = "length" -> [h EXCEPT !.length = "body"]
           [] l = "huge"   -> [h EXCEPT !.length = "huge"]
           [] OTHER        -> h

(* The body: its last unit executes the request and the state stays BODY.  *)
ProcessBody(h, outcome) ==
    IF h.body + 1 = BodyLength
    THEN [Execute(h, outcome) EXCEPT !.body = 0, !.posted = TRUE]
    ELSE [h EXCEPT !.body = h.body + 1]

(* One turn of sockInput's loop.  The beginning of a line is added to the  *)
(* line buffer again and again, as the loop does not count it off, until   *)
(* the buffer is too long.                                                 *)
Take(h, l, outcome) ==
    CASE h.hstate = "BODY"   -> ProcessBody(h, outcome)
      [] h.hstate \in {"REQ", "HEADER"} /\ l = "beginning" -> HttpError(h)
      [] h.hstate = "REQ"    /\ l # "beginning" -> ProcessRequest(h, l)
      [] h.hstate = "HEADER" /\ l # "beginning" -> ProcessHeader(h, l, outcome)
      [] OTHER -> h

-----------------------------------------------------------------------------
HttpInit ==
    /\ hstate = "REQ" /\ length = "none" /\ body = 0 /\ age = 0 /\ closed = FALSE
    /\ input = <<>> /\ polled = TRUE /\ sent = 0
    /\ answers = 0 /\ executed = 0 /\ posted = FALSE

Idle == ~closed /\ input = <<>>

(* Faulty: only the end of a request starts the clock anew.                *)
MutInputKeepsClock(packet) ==
    /\ Idle /\ sent < MaxPackets /\ sent' = sent + 1
    /\ input' = packet /\ age' = Timeout + 1
    /\ UNCHANGED <<hstate, length, body, closed, polled, answers, executed, posted>>

(* sockInput: every packet restarts the timeout.                           *)
SockInput(packet) ==
    /\ Idle /\ sent < MaxPackets /\ sent' = sent + 1
    /\ input' = packet /\ age' = 0
    /\ UNCHANGED <<hstate, length, body, closed, polled, answers, executed, posted>>

(* A turn of its loop.                                                     *)
SockTake(outcome) ==
    /\ input # <<>> /\ input' = Tail(input)
    /\ LET h == Take(Handler, Head(input), outcome)
       IN /\ hstate' = h.hstate /\ length' = h.length /\ body' = h.body
          /\ answers' = h.answers /\ executed' = h.executed /\ posted' = h.posted
    /\ UNCHANGED <<age, closed, polled, sent>>

(* Lua and the file system decide the outcome of a request.                *)
SockRead == \E outcome \in Outcomes : SockTake(outcome)

Ended(h) == h.hstate \in {"DONE", "ERROR"}

(* sockFlush: the timeout first, then the end of a finished request.       *)
SockFlush ==
    /\ Idle
    /\ LET late == age = Timeout
           h == IF late THEN HttpError(Handler) ELSE Handler
       IN /\ hstate' = h.hstate /\ answers' = h.answers
          /\ age' = IF late THEN Timeout + 1 ELSE age
          /\ closed' = Ended(h)
    /\ polled' = TRUE
    /\ UNCHANGED <<length, body, input, sent, executed, posted>>

(* The clock; the poll loop runs many times a second.                      *)
Tick ==
    /\ Idle /\ polled
    /\ polled' = FALSE
    /\ age' = IF age < Timeout THEN age + 1 ELSE age
    /\ UNCHANGED <<hstate, length, body, input, closed, sent, answers, executed, posted>>

HttpNext ==
    \/ \E p \in Packets : SockInput(p)
    \/ SockRead
    \/ SockFlush
    \/ Tick

HttpSpec ==
    /\ HttpInit /\ [][HttpNext]_httpVars
    /\ WF_httpVars(SockRead) /\ WF_httpVars(SockFlush) /\ WF_httpVars(Tick)

-----------------------------------------------------------------------------
(* A connection the server closes was answered exactly once, and executed  *)
(* its request at most once: errors, timeouts and data behind the end of a *)
(* request add nothing.  It holds unless a body was read: process leaves   *)
(* the state BODY behind (http.cc 234-243), so that more data is executed  *)
(* again and the timeout writes a second answer.                           *)
AnsweredOnce ==
    /\ (closed /\ ~posted) => answers = 1
    /\ ~posted => executed <= 1 /\ answers <= 1

=============================================================================
