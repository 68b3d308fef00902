-------------------------- MODULE LoopbackRedirect --------------------------
(***************************************************************************)
(* auth/acquire.py: the one-shot listener of the authorization-code flow.  *)
(* Handler threads offer what arrives to one slot, under its lock; the     *)
(* flow opens the listener, makes its state, tells the listener, sends the *)
(* browser off and waits.  Anything on the machine may send a request.     *)
(*                                                                         *)
(* A request is a record: whether it is for the redirect path, whose state *)
(* it carries ("mine", "other" or "none"), and what it brings: a code, an  *)
(* error, or nothing.                                                      *)
(***************************************************************************)
EXTENDS Naturals

CONSTANTS
    Strays,       \* requests that are not the answer of this flow
    Genuine,      \* the answers the authorization server may redirect with
    NoRedirect,
    MaxArrivals   \* bound: requests that arrive while the listener is open

\* Only the authorization server is told the flow's state.
ASSUME RequestsAssumption ==
    /\ \A request \in Strays : request.state # "mine"
    /\ \A request \in Genuine :
         request.onPath /\ request.state = "mine" /\ request.brings # "timeout"
    /\ NoRedirect \notin Strays \cup Genuine

VARIABLES
    step,       \* the flow: "closed", "open", "stated", "waiting" or "over"
    expected,   \* _Redirect.state: set once the flow told the listener
    slot,       \* _Redirect.url, NoRedirect if none; arrived is set with it
    waiting,    \* requests whose handler has not run yet
    arrivals,   \* how many arrived
    outcome,    \* what became of the flow: "none", "timeout", an error, or a code
    answered    \* a genuine redirect was handled while the flow waited for it

redirectVars == <<step, expected, slot, waiting, arrivals, outcome, answered>>

\* _may_be_the_redirect.
MayBeTheRedirect(request, state) == state = "none" \/ request.state = state

RedirectInit ==
    /\ step = "closed" /\ expected = "none" /\ slot = NoRedirect
    /\ waiting = {} /\ arrivals = 0 /\ outcome = "none" /\ answered = FALSE

\* loopback_receiver() and __enter__.
OpenListener ==
    /\ step = "closed" /\ outcome = "none"
    /\ step' = "open"
    /\ UNCHANGED <<expected, slot, waiting, arrivals, outcome, answered>>

\* Mutant: what was captured before stays.
ExpectStateFromNow ==
    /\ step = "open"
    /\ expected' = "mine" /\ step' = "stated"
    /\ UNCHANGED <<slot, waiting, arrivals, outcome, answered>>

\* expect_state(): a capture made before the flow had a state is let go.
ExpectState ==
    /\ step = "open"
    /\ expected' = "mine"
    /\ slot' = IF slot = NoRedirect \/ MayBeTheRedirect(slot, "mine") THEN slot ELSE NoRedirect
    /\ step' = "stated"
    /\ UNCHANGED <<waiting, arrivals, outcome, answered>>

\* webbrowser.open, or the URL printed; then wait().
SendBrowser ==
    /\ step = "stated"
    /\ step' = "waiting"
    /\ UNCHANGED <<expected, slot, waiting, arrivals, outcome, answered>>

\* A connection, each on a thread of its own. The state is in nobody's hands before
\* the browser is sent off.
Arrive(request) ==
    /\ step \notin {"closed", "over"} /\ arrivals < MaxArrivals
    /\ request \in Strays \/ step = "waiting"
    /\ waiting' = waiting \cup {[request |-> request, n |-> arrivals]}
    /\ arrivals' = arrivals + 1
    /\ UNCHANGED <<step, expected, slot, outcome, answered>>

\* do_GET and offer(): in any order of the threads.
Handle(thread) ==
    /\ thread \in waiting /\ step # "over"
    /\ slot' = IF /\ thread.request.onPath /\ slot = NoRedirect
                  /\ MayBeTheRedirect(thread.request, expected)
               THEN thread.request ELSE slot
    /\ waiting' = waiting \ {thread}
    /\ answered' = (answered \/ (thread.request \in Genuine /\ step = "waiting"))
    /\ UNCHANGED <<step, expected, arrivals, outcome>>

\* parse_redirect: the state before the code.
ParseRedirect(request) ==
    IF request.state # "mine" THEN "state_mismatch" ELSE request.brings

\* wait() returns, the redirect is read, and the listener is closed.
Redirected ==
    /\ step = "waiting" /\ slot # NoRedirect
    /\ outcome' = ParseRedirect(slot)
    /\ step' = "over"
    /\ UNCHANGED <<expected, slot, waiting, arrivals, answered>>

\* RedirectTimeoutError.
RedirectTimeout ==
    /\ step = "waiting" /\ slot = NoRedirect
    /\ outcome' = "timeout"
    /\ step' = "over"
    /\ UNCHANGED <<expected, slot, waiting, arrivals, answered>>

RedirectNext ==
    \/ OpenListener \/ ExpectState \/ SendBrowser
    \/ \E request \in Strays \cup Genuine : Arrive(request)
    \/ \E thread \in waiting : Handle(thread)
    \/ Redirected \/ RedirectTimeout
-----------------------------------------------------------------------------
\* Nothing that is not part of the flow ends it: the redirect read is one of the
\* authorization server's answers to it, and when the flow gives up no answer of the
\* server's had been handled (the module comment, "only the redirect carrying the
\* flow's state may be the one", and expect_state's).
StraysEndNothing ==
    /\ outcome = "timeout" => ~answered
    /\ outcome \notin {"none", "timeout"} => slot \in Genuine
=============================================================================
