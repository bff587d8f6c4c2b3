------------------------------ MODULE EasyFetch ------------------------------
(***************************************************************************)
(* The /easyfetch page (app/routes/easyfetch/easyfetch.page.c) on the      *)
(* server: a handler that starts an HTTP transfer with fetch(), keeps its  *)
(* Response in a heap-allocated context (github_cb_ctx_t) and finishes in  *)
(* the transfer's callback, unless the client left in the meantime.        *)
(*                                                                         *)
(* ServerPending holds the Response, the pending list and the hook; here   *)
(* are the context, the body each response ends with and the isliteral     *)
(* flag that tells cweb_free_http_response whether to free it.  A transfer *)
(* never calls back from inside fetch(): completions are read in socket    *)
(* events only (framework/src/fetch/fetch_event.c).                        *)
(***************************************************************************)
EXTENDS ServerPending

VARIABLES
    ctx,        \* [Reqs -> "none", "alloc", "freed"]: the github_cb_ctx_t
    body,       \* [Reqs -> "none", "heap", "literal"]: where res->body points
    isliteral   \* requests whose res->isliteral is 1

pageVars == <<ctx, body, isliteral>>
allVars == <<vars, pageVars>>

PageInit ==
    /\ Init
    /\ ctx = [r \in Reqs |-> "none"]
    /\ body = [r \in Reqs |-> "none"]
    /\ isliteral = {}

-------------------------------------------------------------------------------
\* A path no route has: the 404 page is a strdup.
NotFound(c, r) ==
    /\ ReadProcessed(c, r)
    /\ body' = [body EXCEPT ![r] = "heap"]
    /\ UNCHANGED <<ctx, isliteral>>

\* POST: a string literal becomes the body and isliteral keeps calloc's 0.
Post(c, r) ==
    /\ ReadProcessed(c, r)
    /\ body' = [body EXCEPT ![r] = "literal"]
    /\ UNCHANGED <<ctx, isliteral>>

\* The context cannot be allocated.
NoContext(c, r) ==
    /\ ReadProcessed(c, r)
    /\ body' = [body EXCEPT ![r] = "literal"]
    /\ isliteral' = isliteral \cup {r}
    /\ UNCHANGED ctx

\* GET: the hook is registered and then fetch() is called, which returns nothing:
\* whether a transfer was started or not, the handler leaves the same Response.
Get(c, r, started) ==
    /\ ReadPending(c, r, "NPROCESSED", TRUE, started)
    /\ ctx' = [ctx EXCEPT ![r] = "alloc"]
    /\ UNCHANGED <<body, isliteral>>

\* Variant with a likely bug: the cancel hook is not cleared with the context.
apicallKeepingHook(r) ==
    /\ HandlerDoneKeepingHook(r)
    /\ ctx' = [ctx EXCEPT ![r] = "freed"]
    /\ IF r \in told
       THEN UNCHANGED <<body, isliteral>>
       ELSE \/ body' = [body EXCEPT ![r] = "heap"] /\ UNCHANGED isliteral
            \/ /\ body' = [body EXCEPT ![r] = "literal"]
               /\ isliteral' = isliteral \cup {r}

\* Variant with a likely bug: the failure branch does not flag its literal.
apicallUnflagged(r) ==
    /\ HandlerDone(r)
    /\ ctx' = [ctx EXCEPT ![r] = "freed"]
    /\ IF r \in told
       THEN UNCHANGED body
       ELSE \E b \in {"heap", "literal"} : body' = [body EXCEPT ![r] = b]
    /\ UNCHANGED isliteral

\* The transfer's callback.  A context that was cancelled ends with an empty 499,
\* the others with the rendered page or with a literal error text; all of them clear
\* the hook and free the context.
github_apicall(r) ==
    /\ HandlerDone(r)
    /\ ctx' = [ctx EXCEPT ![r] = "freed"]
    /\ IF r \in told
       THEN UNCHANGED <<body, isliteral>>
       ELSE \/ body' = [body EXCEPT ![r] = "heap"] /\ UNCHANGED isliteral
            \/ /\ body' = [body EXCEPT ![r] = "literal"]
               /\ isliteral' = isliteral \cup {r}

\* Steps of the server that run no code of the page but github_ctx_cancel, which
\* sets ctx->cancelled: the context of r is cancelled when r is in told.
ServerStep ==
    /\ \/ \E c \in Conns : Accept(c) \/ Receive(c) \/ ReadUnparsable(c) \/ Disconnect(c)
       \/ CheckStart \/ CheckFinished \/ CheckUnfinished
       \/ Stop
    /\ UNCHANGED pageVars

PageNext ==
    \/ \E c \in Conns, r \in Reqs : NotFound(c, r) \/ Post(c, r) \/ NoContext(c, r)
    \/ \E c \in Conns, r \in Reqs : \E started \in BOOLEAN : Get(c, r, started)
    \/ \E r \in Reqs : github_apicall(r)
    \/ ServerStep

PageSpec == PageInit /\ [][PageNext]_allVars

-------------------------------------------------------------------------------
(* Correctness.                                                            *)

\* Neither of the two callbacks that hold a raw pointer meets freed memory: the
\* transfer's callback finds its context and its Response, and the cancel hook, which
\* a disconnect may call at any time, finds the context it writes to.
CallbackMemory ==
    loop = "running" =>
        /\ \A r \in running : ctx[r] = "alloc" /\ mem[r] = "live"
        /\ \A r \in hook : ctx[r] = "alloc"

\* A client that left is never written to, whether the transfer ended before the
\* disconnect, after it, or between the disconnect and the timer.
GoneNeverAnswered == \A r \in told : replies[r] = <<>>

\* A response finished by the callback is released according to where its body lives:
\* free() gets the heap bodies and never a literal.
CallbackBodies ==
    \A r \in Reqs : ctx[r] = "freed" => (r \in isliteral <=> body[r] = "literal")

\* The inductive invariant: beside the above, a context is allocated once per request
\* and before its body, and the client of a told handler is gone.
PageInv ==
    /\ IInv
    /\ ctx \in [Reqs -> {"none", "alloc", "freed"}]
    /\ body \in [Reqs -> {"none", "heap", "literal"}]
    /\ isliteral \subseteq Reqs
    /\ \A r \in running \cup hook : ctx[r] = "alloc"
    /\ \A r \in told : replies[r] = <<>> /\ bev[owner[r]] = "freed"
    /\ \A r \in Reqs : mem[r] = "none" => ctx[r] = "none" /\ r \notin isliteral
    /\ \A r \in Reqs : ctx[r] = "alloc" => body[r] = "none" /\ r \notin isliteral
    /\ \A r \in Reqs : mem[r] = "none" => body[r] = "none"
    /\ CallbackBodies

\* http.h:56 "0 = dynamic, 1 = literal/static", for every response that was freed.
FreesOnlyHeap ==
    \A r \in Reqs : mem[r] = "freed" /\ body[r] = "literal" => r \in isliteral
===============================================================================
