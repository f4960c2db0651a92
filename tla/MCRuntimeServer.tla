-------------------------- MODULE MCRuntimeServer --------------------------
(* Requests for RuntimeServer: every form of a frame, and every method on  *)
(* two workspaces.                                                         *)
EXTENDS RuntimeServer

CONSTANTS d1, d2

Call(method, dir, ws) ==
    [form |-> "call", id |-> TRUE, method |-> method, dir |-> dir, ws |-> ws, size |-> 1]

Notification(r) == [r EXCEPT !.id = FALSE]
Long(r) == [r EXCEPT !.size = 2]
Malformed(form, id) == [Call("other", d1, 1) EXCEPT !.form = form, !.id = id]

\* Frames of every form, with and without an id, and calls that need no session.
FrameRequests ==
    {Malformed("bad_header", TRUE), Malformed("unparsable", FALSE),
     Malformed("undecodable", FALSE),
     Call("other", d1, 1), Notification(Call("shutdown", d1, 1))}

\* Sessions that are created, opened, replaced, used and closed.
SessionRequests ==
    {Call("create", d1, 1), Long(Call("open", d2, 1)),
     Call("close", d1, 1), Notification(Call("use", d1, 2)), Call("flow", d1, 1)}

AllRequests == FrameRequests \cup SessionRequests
=============================================================================
