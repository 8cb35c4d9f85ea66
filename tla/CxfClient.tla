------------------------------ MODULE CxfClient ------------------------------
(***************************************************************************)
(* The client side of the CXF JavaScript runtime (cxf-utils.js): a         *)
(* generated service operation creates a CxfApacheOrgClient, which         *)
(* registers itself in the service's shared CxfApacheOrgUtil object        *)
(* (utils.client = this), serializes the request, and sends it over an     *)
(* XMLHttpRequest.  The host advances the request's readyState and calls   *)
(* onreadystatechange; at DONE, onReadyState reads the status, parses a    *)
(* multipart/related body into the client's attachment table, and calls   *)
(* the success or the error callback.  The generated success callback      *)
(* deserializes the response; an MTOM element is resolved by               *)
(* deserializeBase64orMom through utils.client.parts, i.e. through the     *)
(* client that was constructed last on that service object.                *)
(*                                                                         *)
(* Data is abstracted: a call's response carries at most one attachment,   *)
(* whose content id and content are identified with the call itself; the   *)
(* delivered attachment value is that call, or None for the empty string   *)
(* the deserializer returns when the content id is not in the table.       *)
(***************************************************************************)
EXTENDS Naturals, Sequences

CONSTANTS
    Calls,        \* service-operation invocations; each constructs one client
    Services,     \* generated service objects; each owns one jsutils object
    Svc,          \* Svc[c]: the service object on which call c is made
    StatusCodes,  \* HTTP status codes the host may report
    Bodies,       \* shapes of response body the host may deliver
    Modes,        \* values the service's 'synchronous' flag may take
    CallerWaits,  \* TRUE: no call on a service while an earlier one is unanswered
    None,         \* model value: no client / no call / undefined / ''
    Unreadable    \* model value: reading req.status throws (connection error)

(* The body shapes: XML the host parsed itself (responseXML), a well-formed *)
(* multipart/related MTOM package, one whose attachment part has no        *)
(* Content-ID header, and anything else (no XML, not multipart).           *)
BodyKinds == {"xml", "mtom", "mtomNoCid", "other"}

\* httpStatus == 200 || httpStatus == 0
OkStatus == {200, 0}

\* What the host may report for a request: a status (or none readable) and a body.
Response == [status : StatusCodes \cup {Unreadable}, body : Bodies]

ASSUME ConstantsAssumption ==
    /\ Svc \in [Calls -> Services]
    /\ StatusCodes \subseteq Nat
    /\ Bodies \subseteq BodyKinds
    /\ Modes \subseteq BOOLEAN /\ Modes # {}
    /\ CallerWaits \in BOOLEAN
    /\ None \notin Calls /\ None \notin Response
    /\ Unreadable \notin Nat

\* readyState values of the client (READY_STATE_*) and of the host request.
UNSENT == 0
OPENED == 1
DONE == 4

Delivery == [kind : {"success", "error"}, attach : Calls \cup {None}]

VARIABLES
    rs,        \* rs[c]: readyState of call c's XMLHttpRequest
    client,    \* client[s]: the client registered in service s's jsutils
    blocking,  \* the call whose synchronous send() the script is blocked in
    parts,     \* parts[c]: content ids in client c's attachment table, or None
    resp,      \* resp[c]: the response the host delivered to call c, or None
    cb         \* cb[c]: the callbacks delivered to call c's caller, in order

vars == <<rs, client, blocking, parts, resp, cb>>

-----------------------------------------------------------------------------
(* Helpers of the DONE branch of onReadyState.                             *)

\* A callback of the given kind reaches call c's caller.
Deliver(c, kind, a) ==
    cb' = [cb EXCEPT ![c] = Append(@, [kind |-> kind, attach |-> a])]

\* Content-Type is multipart/related with a boundary parameter.
IsMultipartRelated(b) == b \in {"mtom", "mtomNoCid"}

\* Mutant: the content id is stored with its angle brackets ("<c>").
ParseMultipartRelatedKeepsBrackets(c, b) ==
    CASE b = "mtom"      -> {<<c>>}
      [] b = "mtomNoCid" -> {}
      [] OTHER           -> parts[c]

(* The attachment table parseMultipartRelated leaves in this.parts: it is  *)
(* not assigned when the content type is not multipart/related, holds the  *)
(* attachment's content id (angle brackets stripped) for a well-formed     *)
(* package, and stays empty when cid.substr throws on a missing            *)
(* Content-ID.                                                             *)
ParseMultipartRelated(c, b) ==
    CASE b = "mtom"      -> {c}
      [] b = "mtomNoCid" -> {}
      [] OTHER           -> parts[c]

\* parseMultipartRelated throws (TypeError on the undefined content id).
ParseThrows(b) == b = "mtomNoCid"

(* deserializeBase64orMom on an xop:Include with href cid:c, reading the   *)
(* table tbl of utils.client: the part's data, or '' when it is missing.   *)
DeserializeBase64orMom(c, tbl) == IF c \in tbl THEN c ELSE None

(* The generated onsuccess deserializes the response and hands the value   *)
(* to the caller.  An inline base64 element is decoded from the document;  *)
(* an MTOM element goes through utils.client of the call's service, and    *)
(* this.client.parts[cid] throws when that client's table is undefined.    *)
OnSuccess(c, b) ==
    LET tbl == parts'[client[Svc[c]]] IN
    \/ /\ b = "xml"
       /\ Deliver(c, "success", c)
    \/ /\ b = "mtom"
       /\ tbl # None
       /\ Deliver(c, "success", DeserializeBase64orMom(c, tbl))
    \/ /\ b = "mtom"
       /\ tbl = None
       /\ UNCHANGED cb

\* Mutant: the exception from reading req.status is swallowed without
\* calling onerror.
StatusUnreadableSwallowed(c, st) ==
    /\ st = Unreadable
    /\ UNCHANGED <<parts, cb>>

\* Reading req.status throws (connection error): onerror(e) is called.
StatusUnreadable(c, st) ==
    /\ st = Unreadable
    /\ Deliver(c, "error", None)
    /\ UNCHANGED parts

\* Mutant: no 'return' after onerror("Could not handle content of
\* response."), so control falls through to onsuccess(this, null).
NoResponseXMLFallsThrough(c, b) ==
    /\ parts' = [parts EXCEPT ![c] = ParseMultipartRelated(c, b)]
    /\ \/ /\ IsMultipartRelated(b) /\ ~ParseThrows(b)
          /\ OnSuccess(c, b)
       \/ /\ ~IsMultipartRelated(b)
          /\ cb' = [cb EXCEPT ![c] = @ \o
                     <<[kind |-> "error", attach |-> None],
                       [kind |-> "success", attach |-> c]>>]
       \/ /\ ParseThrows(b)
          /\ UNCHANGED cb

(* Status 200 or 0 and no req.responseXML: parseMultipartRelated, then     *)
(* onsuccess with the parsed primary part, or onerror when the body is not *)
(* multipart/related; an exception thrown by the parse escapes the handler *)
(* and neither callback runs.                                              *)
NoResponseXML(c, b) ==
    /\ parts' = [parts EXCEPT ![c] = ParseMultipartRelated(c, b)]
    /\ \/ /\ IsMultipartRelated(b) /\ ~ParseThrows(b)
          /\ OnSuccess(c, b)
       \/ /\ ~IsMultipartRelated(b)
          /\ Deliver(c, "error", None)
       \/ /\ ParseThrows(b)
          /\ UNCHANGED cb

(* onReadyState when req.readyState == DONE, for status st and body b.     *)
OnReadyStateDone(c, st, b) ==
    \/ StatusUnreadable(c, st)
    \/ /\ st \in StatusCodes \ OkStatus
       /\ Deliver(c, "error", None)
       /\ UNCHANGED parts
    \/ /\ st \in OkStatus
       /\ b = "xml"                             \* req.responseXML present
       /\ UNCHANGED parts
       /\ OnSuccess(c, b)
    \/ /\ st \in OkStatus
       /\ b # "xml"
       /\ NoResponseXML(c, b)

-----------------------------------------------------------------------------
(* Actions.                                                                *)

(* new CxfApacheOrgClient(utils): the client registers itself as the      *)
(* service's utils.client ("we aren't worried about multithreading!").    *)
NewClient(c) == client' = [client EXCEPT ![Svc[c]] = c]

(* A generated operation on service Svc[c]: new CxfApacheOrgClient         *)
(* registers itself as utils.client, the request is serialized (MTOM parts *)
(* go to utils.client.mtomparts) and client.request opens and sends it; a  *)
(* synchronous send blocks the script until the request is DONE.           *)
Invoke(c) ==
    /\ rs[c] = UNSENT
    /\ blocking = None
    /\ CallerWaits =>
          \A d \in Calls : (Svc[d] = Svc[c] /\ rs[d] # UNSENT) => cb[d] # <<>>
    /\ NewClient(c)
    /\ rs' = [rs EXCEPT ![c] = OPENED]
    /\ \E sync \in Modes : blocking' = IF sync THEN c ELSE None
    /\ UNCHANGED <<parts, resp, cb>>

(* The host moves call c's request to HEADERS_RECEIVED or LOADING and     *)
(* calls onreadystatechange; onReadyState ignores states other than DONE.  *)
Progress(c) ==
    /\ rs[c] \in OPENED .. DONE - 2
    /\ blocking \in {None, c}
    /\ \E r \in rs[c] + 1 .. DONE - 1 : rs' = [rs EXCEPT ![c] = r]
    /\ UNCHANGED <<client, blocking, parts, resp, cb>>

(* The host completes call c's request (possibly skipping the earlier      *)
(* states) and calls onreadystatechange, which runs the DONE branch.       *)
Complete(c) ==
    /\ rs[c] \in OPENED .. DONE - 1
    /\ blocking \in {None, c}
    /\ rs' = [rs EXCEPT ![c] = DONE]
    /\ blocking' = None
    /\ \E st \in StatusCodes \cup {Unreadable}, b \in Bodies :
          /\ resp' = [resp EXCEPT ![c] = [status |-> st, body |-> b]]
          /\ OnReadyStateDone(c, st, b)
    /\ UNCHANGED client

\* No request is in flight: the page sits idle.
Quiescent ==
    /\ \A c \in Calls : rs[c] \in {UNSENT, DONE}
    /\ UNCHANGED vars

Init ==
    /\ rs = [c \in Calls |-> UNSENT]
    /\ client = [s \in Services |-> None]
    /\ blocking = None
    /\ parts = [c \in Calls |-> None]
    /\ resp = [c \in Calls |-> None]
    /\ cb = [c \in Calls |-> <<>>]

Next ==
    \/ \E c \in Calls : Invoke(c) \/ Progress(c) \/ Complete(c)
    \/ Quiescent

(* The host eventually completes every request it has been given; nothing  *)
(* obliges a caller to make a call.                                        *)
Fairness == \A c \in Calls : WF_vars(Complete(c))

Spec == Init /\ [][Next]_vars /\ Fairness

-----------------------------------------------------------------------------
(* Properties.                                                             *)

TypeOK ==
    /\ rs \in [Calls -> UNSENT .. DONE]
    /\ client \in [Services -> Calls \cup {None}]
    /\ blocking \in Calls \cup {None}
    /\ parts \in [Calls -> (SUBSET Calls) \cup {None}]
    /\ resp \in [Calls -> Response \cup {None}]
    /\ cb \in [Calls -> Seq(Delivery)]

(* onReadyState answers a call at most once, and with the success callback *)
(* exactly when the host reported status 200 or 0 with a body it could     *)
(* use (responseXML or a multipart/related package): the early returns     *)
(* after each callback keep a success from falling through to onerror.    *)
CallbackMatchesResponse ==
    \A c \in Calls : cb[c] # <<>> =>
        /\ Len(cb[c]) = 1
        /\ resp[c] # None
        /\ (cb[c][1].kind = "success") <=>
              (resp[c].status \in OkStatus /\ resp[c].body \in {"xml", "mtom"})

(* Every successful answer carries the call's own attachment data: the     *)
(* MTOM element of call c's response is resolved in call c's attachment    *)
(* table, although deserializeBase64orMom reaches it through the shared    *)
(* utils.client of the service object.                                     *)
AttachmentIntegrity ==
    \A c \in Calls : \A i \in 1 .. Len(cb[c]) :
        cb[c][i].kind = "success" => cb[c][i].attach = c

(* Every call that has been sent is eventually answered by its success or  *)
(* its error callback, provided the host completes every request.          *)
EveryCallAnswered ==
    \A c \in Calls : rs[c] # UNSENT ~> cb[c] # <<>>

-----------------------------------------------------------------------------
(* Refinement.  A call has been made once its request left UNSENT, and the *)
(* callbacks its caller received are the abstract answers.                 *)
Abs == INSTANCE CallAbstract
           WITH requested <- {c \in Calls : rs[c] # UNSENT}, answers <- cb

(* The client runtime implements what a service operation promises: every  *)
(* call made through request() is answered exactly once by onReadyState,   *)
(* by onerror or by onsuccess with the call's own attachment, and never    *)
(* left unanswered.                                                        *)
ImplementsCallAbstract == Abs!Spec
=============================================================================
