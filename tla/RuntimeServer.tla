--------------------------- MODULE RuntimeServer ---------------------------
(***************************************************************************)
(* The sidecar process of the desktop application (fecompiler/runtime):    *)
(* it reads chunks of a byte stream, cuts Content-Length frames out of     *)
(* them, dispatches each frame as a JSON-RPC request, keeps the sessions   *)
(* of the open workspaces and writes notifications and answers.            *)
(*                                                                         *)
(* The stream is a sequence of cells.  The header of a frame is a cell     *)
(* with the length and a cell with the blank line that ends it; a payload  *)
(* is r.size cells, and one that is longer than a cell contains something  *)
(* that looks like a blank line.  A chunk ends between any two cells.      *)
(***************************************************************************)
EXTENDS Integers, Sequences, FiniteSets

CONSTANTS
    Requests,       \* what a client sends: [form, id, method, dir, ws, size]
    Dirs,           \* resolved workspace directories
    MaxRequests,    \* bound on the requests of one client
    MaxChunk,       \* the size of a read (8192 bytes in the code)
    MaxEvents,      \* bound on the notifications of one request
    None            \* no directory, no workspace

\* form: whether the payload can be decoded, parsed and accepted at all, and
\* whether the header before it is well-formed.
Forms == {"call", "bad_header", "undecodable", "unparsable", "invalid", "bad_params"}
Methods == {"other", "shutdown", "create", "open", "close", "use", "flow"}
Handles == 1..MaxRequests

ASSUME RequestsAssumption ==
    Requests \subseteq [form : Forms, id : BOOLEAN, method : Methods,
                        dir : Dirs, ws : Handles, size : {1, 2}]
ASSUME BoundsAssumption ==
    /\ MaxRequests \in Nat \ {0} /\ MaxChunk \in Nat \ {0} /\ MaxEvents \in Nat
ASSUME NoneAssumption == None \notin Dirs

VARIABLES
    sent,       \* the requests the client has sent, by number
    wire,       \* the cells written by the client and not yet read
    eof,        \* the client has closed the stream
    buffer,     \* ContentLengthDecoder._buffer
    messages,   \* the payloads that feed returned and that are to be dispatched
    pc,         \* where _serve_stdio is
    current,    \* number of the request being dispatched
    ok,         \* whether it has a result
    exit,       \* RuntimeServer.should_exit
    session,    \* session[w]: directory of the session with handle w
    byDirectory,\* byDirectory[d]: handle of the session of d
    nextId,     \* WorkspaceSessionRegistry._next_id
    holding,    \* the sessions whose mutation_lock is held
    active,     \* active_operation_ids: requests that run a flow
    log,        \* the frames written to the client
    given       \* history: the handles the client has been given

client == <<sent, wire, eof>>
registry == <<session, byDirectory, nextId, given>>
vars == <<client, buffer, messages, pc, current, ok, exit, registry, holding,
          active, log>>

-----------------------------------------------------------------------------
(* The stream. *)

Frame(no, r) ==
    <<[no |-> no, part |-> "length"], [no |-> no, part |-> "blank"]>> \o
    [i \in 1..r.size |-> [no |-> no, part |-> IF i < r.size THEN "blank" ELSE "text"]]

\* The place of the first blank line in the buffer, 0 if there is none.
HeaderEnd ==
    LET blank == {i \in DOMAIN buffer : buffer[i].part = "blank"}
    IN IF blank = {} THEN 0 ELSE CHOOSE i \in blank : \A j \in blank : i <= j

\* Exactly one Content-Length line, a number that is not too large.
HeaderIsValid ==
    /\ HeaderEnd = 2
    /\ buffer[1].part = "length"
    /\ sent[buffer[1].no].form # "bad_header"

PayloadEnd == HeaderEnd + sent[buffer[1].no].size

\* The request whose payload this is, 0 if the bytes are not one payload.
Sender(payload) ==
    LET no == payload[1].no
    IN IF /\ \A i \in DOMAIN payload : payload[i].no = no
          /\ payload[Len(payload)].part = "text"
       THEN no ELSE 0

-----------------------------------------------------------------------------
(* The client.  Its writes are taken when the server reads: only a read     *)
(* depends on what is in the stream.                                       *)

Init ==
    /\ sent = <<>> /\ wire = <<>> /\ eof = FALSE
    /\ buffer = <<>> /\ messages = <<>>
    /\ pc = "reading" /\ current = 0 /\ ok = TRUE /\ exit = FALSE
    /\ session = [w \in Handles |-> None]
    /\ byDirectory = [d \in Dirs |-> 0]
    /\ nextId = 1 /\ given = {}
    /\ holding = {} /\ active = {} /\ log = <<>>

Send(r) ==
    /\ pc = "reading" /\ ~eof /\ Len(sent) < MaxRequests
    /\ sent' = Append(sent, r)
    /\ wire' = wire \o Frame(Len(sent) + 1, r)
    /\ UNCHANGED <<eof, buffer, messages, pc, current, ok, exit, registry,
                   holding, active, log>>

\* The client closes the stream or dies; what it wrote last may be cut.
Close(n) ==
    /\ pc = "reading" /\ ~eof
    /\ eof' = TRUE
    /\ wire' = SubSeq(wire, 1, n)
    /\ UNCHANGED <<sent, buffer, messages, pc, current, ok, exit, registry,
                   holding, active, log>>

-----------------------------------------------------------------------------
(* _serve_stdio and ContentLengthDecoder.feed. *)

ReadChunk(n) ==
    /\ pc = "reading" /\ n \in 1..MaxChunk /\ n <= Len(wire)
    /\ buffer' = buffer \o SubSeq(wire, 1, n)
    /\ wire' = SubSeq(wire, n + 1, Len(wire))
    /\ pc' = "feeding"
    /\ UNCHANGED <<sent, eof, messages, current, ok, exit, registry, holding,
                   active, log>>

\* An empty read: the stream is closed, and part of a frame may be left over.
ReadEnd ==
    /\ pc = "reading" /\ eof /\ wire = <<>>
    /\ pc' = "stopped"
    /\ UNCHANGED <<client, buffer, messages, current, ok, exit, registry,
                   holding, active, log>>

ExtractMessage ==
    /\ pc = "feeding" /\ HeaderEnd > 0 /\ HeaderIsValid
    /\ Len(buffer) >= PayloadEnd
    /\ messages' = Append(messages, SubSeq(buffer, HeaderEnd + 1, PayloadEnd))
    /\ buffer' = SubSeq(buffer, PayloadEnd + 1, Len(buffer))
    /\ UNCHANGED <<client, pc, current, ok, exit, registry, holding, active, log>>

FeedReturns ==
    /\ pc = "feeding"
    /\ \/ HeaderEnd = 0
       \/ HeaderIsValid /\ Len(buffer) < PayloadEnd
    /\ pc' = "dispatching"
    /\ UNCHANGED <<client, buffer, messages, current, ok, exit, registry,
                   holding, active, log>>

\* TransportError: the process ends with status 1, and the messages that were
\* cut out of the chunk before the bad header are lost with it.
FeedRaises ==
    /\ pc = "feeding" /\ HeaderEnd > 0 /\ ~HeaderIsValid
    /\ messages' = <<>>
    /\ pc' = "stopped"
    /\ UNCHANGED <<client, buffer, current, ok, exit, registry, holding,
                   active, log>>

NextMessage ==
    /\ pc = "dispatching" /\ messages # <<>>
    /\ current' = Sender(Head(messages))
    /\ messages' = Tail(messages)
    /\ pc' = "parsing"
    /\ UNCHANGED <<client, buffer, ok, exit, registry, holding, active, log>>

ReadOn ==
    /\ pc = "dispatching" /\ messages = <<>>
    /\ pc' = "reading"
    /\ UNCHANGED <<client, buffer, messages, current, ok, exit, registry,
                   holding, active, log>>

-----------------------------------------------------------------------------
(* RuntimeServer.dispatch. *)

Request == sent[current]
Working(place) == pc = place /\ current # 0

\* Faults are raised before a handler is looked up; bytes that are no payload
\* of the client do not parse.
Reject ==
    /\ pc = "parsing"
    /\ current = 0 \/ Request.form \in {"unparsable", "invalid", "bad_params"}
    /\ ok' = FALSE
    /\ pc' = "answering"
    /\ UNCHANGED <<client, buffer, messages, current, exit, registry, holding,
                   active, log>>

\* bytes.decode raises outside the try statement: nobody catches it.
DecodeRaises ==
    /\ Working("parsing") /\ Request.form = "undecodable"
    /\ messages' = <<>>
    /\ pc' = "stopped"
    /\ UNCHANGED <<client, buffer, current, ok, exit, registry, holding,
                   active, log>>

Called(method) == Working("parsing") /\ Request.form = "call" /\ Request.method = method

\* rpc.hello, rpc.ping, frontend.*, a method or a version that is unknown.
CallOther ==
    /\ Called("other")
    /\ ok' \in BOOLEAN
    /\ pc' = "answering"
    /\ UNCHANGED <<client, buffer, messages, current, exit, registry, holding,
                   active, log>>

CallShutdown ==
    /\ Called("shutdown")
    /\ exit' = TRUE /\ ok' = TRUE
    /\ session' = [w \in Handles |-> None]
    /\ byDirectory' = [d \in Dirs |-> 0]
    /\ pc' = "answering"
    /\ UNCHANGED <<client, buffer, messages, current, nextId, given, holding,
                   active, log>>

\* Mutant of NewHandle: handles are numbered by the sessions that are open.
HandleOfCount == 1 + Cardinality({w \in Handles : session[w] # None})

\* Mutant of NewHandle: handles are numbered from 0.
HandleFromZero == nextId - 1

NewHandle == nextId

\* _create_session, after _remove_session of the one that is being replaced.
Register(d, replaced) ==
    /\ session' = [w \in Handles |-> IF w = NewHandle THEN d
                                     ELSE IF w \in replaced THEN None
                                     ELSE session[w]]
    /\ byDirectory' = [byDirectory EXCEPT ![d] = NewHandle]
    /\ nextId' = nextId + 1
    /\ given' = given \cup {[ws |-> NewHandle, dir |-> d]}

CreateSession(d) == Register(d, {byDirectory[d]})

\* A directory that is open already keeps its session.
OpenSession(d) ==
    \/ byDirectory[d] = 0 /\ Register(d, {})
    \/ /\ byDirectory[d] # 0
       /\ given' = given \cup {[ws |-> byDirectory[d], dir |-> d]}
       /\ UNCHANGED <<session, byDirectory, nextId>>

\* The application creates or loads the workspace first; only then a session
\* is made for it.
CallOpen ==
    /\ Called("create") \/ Called("open")
    /\ ok' \in BOOLEAN
    /\ IF ok'
       THEN IF Request.method = "create" THEN CreateSession(Request.dir)
                                         ELSE OpenSession(Request.dir)
       ELSE UNCHANGED registry
    /\ pc' = "answering"
    /\ UNCHANGED <<client, buffer, messages, current, exit, holding, active, log>>

CallClose ==
    /\ Called("close")
    /\ ok' = (session[Request.ws] # None)
    /\ IF ok'
       THEN /\ session' = [session EXCEPT ![Request.ws] = None]
            /\ byDirectory' = [byDirectory EXCEPT ![session[Request.ws]] = 0]
       ELSE UNCHANGED <<session, byDirectory>>
    /\ pc' = "answering"
    /\ UNCHANGED <<client, buffer, messages, current, exit, nextId, given,
                   holding, active, log>>

SessionNotFound ==
    /\ Called("use") \/ Called("flow")
    /\ session[Request.ws] = None
    /\ ok' = FALSE
    /\ pc' = "answering"
    /\ UNCHANGED <<client, buffer, messages, current, exit, registry, holding,
                   active, log>>

\* _with_session: the operation runs inside the mutation lock of its session.
BeginOperation ==
    /\ Called("use") \/ Called("flow")
    /\ session[Request.ws] # None
    /\ Request.ws \notin holding
    /\ holding' = holding \cup {Request.ws}
    /\ active' = IF Request.method = "flow" THEN active \cup {current} ELSE active
    /\ pc' = "working"
    /\ UNCHANGED <<client, buffer, messages, current, ok, exit, registry, log>>

Events == {i \in DOMAIN log : log[i] = [no |-> current, kind |-> "event"]}

\* A notification of the flow's progress goes out before the flow goes on.
EmitEvent ==
    /\ Working("working") /\ Request.method = "flow"
    /\ Cardinality(Events) < MaxEvents
    /\ log' = Append(log, [no |-> current, kind |-> "event"])
    /\ UNCHANGED <<client, buffer, messages, pc, current, ok, exit, registry,
                   holding, active>>

\* Mutant of EndOperation: a failed operation keeps its lock.
EndOperationLocked ==
    /\ Working("working")
    /\ ok' \in BOOLEAN
    /\ holding' = IF ok' THEN holding \ {Request.ws} ELSE holding
    /\ active' = active \ {current}
    /\ pc' = "answering"
    /\ UNCHANGED <<client, buffer, messages, current, exit, registry, log>>

\* Mutant of EndOperation: only a completed operation is taken off the list.
EndOperationActive ==
    /\ Working("working")
    /\ ok' \in BOOLEAN
    /\ holding' = holding \ {Request.ws}
    /\ active' = IF ok' THEN active \ {current} ELSE active
    /\ pc' = "answering"
    /\ UNCHANGED <<client, buffer, messages, current, exit, registry, log>>

\* The operation returns or raises; the lock and the operation id are given
\* up in either case.
EndOperation ==
    /\ Working("working")
    /\ ok' \in BOOLEAN
    /\ holding' = holding \ {Request.ws}
    /\ active' = active \ {current}
    /\ pc' = "answering"
    /\ UNCHANGED <<client, buffer, messages, current, exit, registry, log>>

\* Mutant of Answered: what could not be parsed has no id, and is not answered.
AnsweredById(r) == r.id

\* A request without an id is answered only when it could not be read as one.
Answered(r) == r.id \/ r.form \in {"unparsable", "invalid"}

\* After a shutdown the rest of the chunk is left where it is.
Answer ==
    /\ pc = "answering"
    /\ log' = IF current = 0 \/ Answered(Request)
              THEN Append(log, [no |-> current, kind |-> "answer"])
              ELSE log
    /\ pc' = IF exit THEN "stopped" ELSE "dispatching"
    /\ messages' = IF exit THEN <<>> ELSE messages
    /\ UNCHANGED <<client, buffer, current, ok, exit, registry, holding, active>>

-----------------------------------------------------------------------------

Server ==
    \/ \E n \in 1..MaxChunk : ReadChunk(n)
    \/ ReadEnd
    \/ ExtractMessage \/ FeedReturns \/ FeedRaises
    \/ NextMessage \/ ReadOn
    \/ Reject \/ DecodeRaises
    \/ CallOther \/ CallShutdown \/ CallOpen \/ CallClose
    \/ SessionNotFound \/ BeginOperation \/ EmitEvent \/ EndOperation
    \/ Answer

Next ==
    \/ Server
    \/ \E r \in Requests : Send(r)
    \/ \E n \in 0..Len(wire) : Close(n)

\* The loop of the server goes on while there is something to do; tools end.
Spec == Init /\ [][Next]_vars /\ WF_vars(Server)

-----------------------------------------------------------------------------
(* Properties. *)

Places == {"reading", "feeding", "dispatching", "parsing", "working",
           "answering", "stopped"}
Cells == [no : 1..MaxRequests, part : {"length", "blank", "text"}]

\* The types of the server's state.
TypeOK ==
    /\ sent \in Seq(Requests) /\ Len(sent) <= MaxRequests
    /\ wire \in Seq(Cells) /\ buffer \in Seq(Cells) /\ eof \in BOOLEAN
    /\ messages \in Seq(Seq(Cells))
    /\ pc \in Places /\ current \in 0..MaxRequests
    /\ ok \in BOOLEAN /\ exit \in BOOLEAN
    /\ session \in [Handles -> Dirs \cup {None}]
    /\ byDirectory \in [Dirs -> Handles \cup {0}]
    /\ nextId \in 1..MaxRequests + 1
    /\ holding \subseteq Handles /\ active \subseteq 1..MaxRequests
    /\ log \in Seq([no : 0..MaxRequests, kind : {"event", "answer"}])
    /\ given \subseteq [ws : Handles, dir : Dirs]

\* README.md:91-110.  However the stream is cut into chunks, requests are
\* served one at a time and in order, their notifications come before their
\* answers, and each is answered at most once and only if it asked for it.
Waiting ==
    (IF pc \in {"parsing", "working", "answering"} THEN <<current>> ELSE <<>>)
    \o [i \in DOMAIN messages |-> Sender(messages[i])]

\* JSON-RPC 2.0: a notification, a readable request without an id, asks for none.
AsksForAnswer(r) == r.id \/ r.form = "unparsable" \/ r.form = "invalid"

Service == INSTANCE RequestService WITH
    Owed <- {r \in Requests : AsksForAnswer(r)},
    queue <- [i \in DOMAIN Waiting |-> [no |-> Waiting[i], req |-> sent[Waiting[i]]]],
    stopped <- pc = "stopped"

ImplementsRequestService == Service!Spec

\* sessions.py: a handle that a client has been given never leads to another
\* workspace, and the two tables of the registry are inverse to each other.
HandlesKeepTheirWorkspace ==
    /\ \A g \in given : session[g.ws] \in {g.dir, None}
    /\ \A d \in Dirs : byDirectory[d] # 0 => session[byDirectory[d]] = d
    /\ \A w \in Handles : session[w] # None => byDirectory[session[w]] = w

\* workspace_api.py:220-245.  Between two requests no lock is held, and no
\* operation counts as active that workspace.recover_interrupted would spare.
NothingHeldBetweenRequests == pc # "working" => holding = {} /\ active = {}

\* Every request that was sent is either served, or the server has ended.
Settled(no) ==
    \/ pc = "stopped"
    \/ /\ no \notin {Waiting[i] : i \in DOMAIN Waiting}
       /\ \A i \in DOMAIN wire : wire[i].no # no
       /\ \A i \in DOMAIN buffer : buffer[i].no # no
RequestsSettle == \A no \in 1..MaxRequests : (Len(sent) >= no) ~> Settled(no)
=============================================================================
