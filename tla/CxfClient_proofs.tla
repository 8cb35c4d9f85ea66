--------------------------- MODULE CxfClient_proofs ---------------------------
(***************************************************************************)
(* Proofs about CxfClient for every value of the constants.                *)
(***************************************************************************)
EXTENDS CxfClient, TLAPS

USE ConstantsAssumption DEF UNSENT, OPENED, DONE, OkStatus, BodyKinds

-----------------------------------------------------------------------------
(* Lemmas about the helpers of onReadyState.                               *)

\* Appending one callback record keeps the callback log well typed.
LEMMA DeliverType ==
    ASSUME TypeOK, NEW c \in Calls,
           NEW kind \in {"success", "error"}, NEW a \in Calls \cup {None},
           Deliver(c, kind, a)
    PROVE  cb' \in [Calls -> Seq(Delivery)]
<1>1. [kind |-> kind, attach |-> a] \in Delivery
  BY DEF Delivery
<1>2. Append(cb[c], [kind |-> kind, attach |-> a]) \in Seq(Delivery)
  BY <1>1 DEF TypeOK
<1>3. QED
  BY <1>2 DEF TypeOK, Deliver

\* Delivering to an unanswered call gives it exactly one record.
LEMMA DeliverShape ==
    ASSUME TypeOK, NEW c \in Calls, NEW kind, NEW a,
           cb[c] = <<>>, Deliver(c, kind, a)
    PROVE  /\ cb'[c] = <<[kind |-> kind, attach |-> a]>>
           /\ \A d \in Calls \ {c} : cb'[d] = cb[d]
BY DEF TypeOK, Deliver

\* The same, as the length and kind of the one record.
LEMMA DeliverOne ==
    ASSUME TypeOK, NEW c \in Calls, NEW kind, NEW a,
           cb[c] = <<>>, Deliver(c, kind, a)
    PROVE  /\ \A d \in Calls \ {c} : cb'[d] = cb[d]
           /\ Len(cb'[c]) = 1 /\ cb'[c][1].kind = kind
BY DEF TypeOK, Deliver

\* The attachment table parseMultipartRelated leaves is a table or undefined.
LEMMA ParseType ==
    ASSUME TypeOK, NEW c \in Calls, NEW b \in Bodies
    PROVE  ParseMultipartRelated(c, b) \in (SUBSET Calls) \cup {None}
BY DEF TypeOK, ParseMultipartRelated

\* The generated success callback delivers a well-typed record, or none.
LEMMA OnSuccessType ==
    ASSUME TypeOK, NEW c \in Calls, NEW b \in Bodies, OnSuccess(c, b)
    PROVE  cb' \in [Calls -> Seq(Delivery)]
<1>1. DeserializeBase64orMom(c, parts'[client[Svc[c]]]) \in Calls \cup {None}
  BY DEF DeserializeBase64orMom
<1>2. UNCHANGED cb => cb' \in [Calls -> Seq(Delivery)]
  BY DEF TypeOK
<1>3. QED
  BY <1>1, <1>2, DeliverType DEF OnSuccess

\* The DONE branch leaves a well-typed table and callback log.
LEMMA OnReadyStateDoneType ==
    ASSUME TypeOK, NEW c \in Calls,
           NEW st \in StatusCodes \cup {Unreadable}, NEW b \in Bodies,
           OnReadyStateDone(c, st, b)
    PROVE  /\ parts' \in [Calls -> (SUBSET Calls) \cup {None}]
           /\ cb' \in [Calls -> Seq(Delivery)]
<1>1. CASE StatusUnreadable(c, st)
  BY <1>1, DeliverType DEF StatusUnreadable, TypeOK
<1>2. CASE /\ st \in StatusCodes \ OkStatus
           /\ Deliver(c, "error", None)
           /\ UNCHANGED parts
  BY <1>2, DeliverType DEF TypeOK
<1>3. CASE /\ st \in OkStatus
           /\ b = "xml"
           /\ UNCHANGED parts
           /\ OnSuccess(c, b)
  BY <1>3, OnSuccessType DEF TypeOK
<1>4. CASE /\ st \in OkStatus
           /\ b # "xml"
           /\ NoResponseXML(c, b)
  <2>1. parts' \in [Calls -> (SUBSET Calls) \cup {None}]
    BY <1>4, ParseType DEF NoResponseXML, TypeOK
  <2>2. cb' \in [Calls -> Seq(Delivery)]
    BY <1>4, OnSuccessType, DeliverType DEF NoResponseXML, TypeOK
  <2>3. QED
    BY <2>1, <2>2
<1>5. QED
  BY <1>1, <1>2, <1>3, <1>4 DEF OnReadyStateDone

-----------------------------------------------------------------------------
(* Type correctness.                                                       *)

\* One step of the specification preserves the type invariant.
LEMMA TypeStep == TypeOK /\ [Next]_vars => TypeOK'
<1> SUFFICES ASSUME TypeOK, [Next]_vars PROVE TypeOK'
  OBVIOUS
<1>1. ASSUME NEW c \in Calls, Invoke(c) PROVE TypeOK'
  BY <1>1 DEF Invoke, NewClient, TypeOK
<1>2. ASSUME NEW c \in Calls, Progress(c) PROVE TypeOK'
  BY <1>2 DEF Progress, TypeOK
<1>3. ASSUME NEW c \in Calls, Complete(c) PROVE TypeOK'
  <2>1. PICK st \in StatusCodes \cup {Unreadable}, b \in Bodies :
              /\ resp' = [resp EXCEPT ![c] = [status |-> st, body |-> b]]
              /\ OnReadyStateDone(c, st, b)
    BY <1>3 DEF Complete
  <2>2. resp' \in [Calls -> Response \cup {None}]
    BY <2>1 DEF TypeOK, Response
  <2>3. /\ parts' \in [Calls -> (SUBSET Calls) \cup {None}]
        /\ cb' \in [Calls -> Seq(Delivery)]
    BY <2>1, OnReadyStateDoneType
  <2>4. QED
    BY <1>3, <2>2, <2>3 DEF Complete, TypeOK
<1>4. CASE Quiescent
  BY <1>4 DEF Quiescent, vars, TypeOK
<1>5. CASE UNCHANGED vars
  BY <1>5 DEF vars, TypeOK
<1>6. QED
  BY <1>1, <1>2, <1>3, <1>4, <1>5 DEF Next

\* Every reachable state is well typed: readyStates stay in 0..4, tables
\* hold content ids of calls, and callback logs hold well-formed records.
THEOREM TypeCorrect == Spec => []TypeOK
<1>1. Init => TypeOK
  BY DEF Init, TypeOK
<1>2. QED
  BY <1>1, TypeStep, PTL DEF Spec

-----------------------------------------------------------------------------
(* Each call is answered at most once, and as its response says.          *)

\* Until its request is DONE, a call has no response and no answer.
NotDoneUnanswered ==
    \A c \in Calls : rs[c] # DONE => cb[c] = <<>> /\ resp[c] = None

(* The inductive invariant of CallbackMatchesResponse: the DONE branch     *)
(* runs once per call, and when it runs the call's log is still empty.     *)
CInv == TypeOK /\ NotDoneUnanswered /\ CallbackMatchesResponse

\* The generated onsuccess, on an unanswered call, answers it with one
\* success record or not at all, and no other call.
LEMMA OnSuccessAnswer ==
    ASSUME TypeOK, NEW c \in Calls, NEW b \in Bodies,
           cb[c] = <<>>, OnSuccess(c, b)
    PROVE  /\ \A d \in Calls \ {c} : cb'[d] = cb[d]
           /\ \/ cb'[c] = <<>>
              \/ Len(cb'[c]) = 1 /\ cb'[c][1].kind = "success"
<1>1. CASE Deliver(c, "success", c)
  BY <1>1, DeliverOne
<1>2. CASE Deliver(c, "success", DeserializeBase64orMom(c, parts'[client[Svc[c]]]))
  BY <1>2, DeliverOne
<1>3. CASE UNCHANGED cb
  BY <1>3
<1>4. QED
  BY <1>1, <1>2, <1>3 DEF OnSuccess

(* The DONE branch, on an unanswered call, answers it at most once, with  *)
(* success exactly when the status is 200/0 and the body is responseXML or *)
(* a multipart/related package, and answers no other call.                 *)
LEMMA OnReadyStateDoneAnswer ==
    ASSUME TypeOK, NEW c \in Calls,
           NEW st \in StatusCodes \cup {Unreadable}, NEW b \in Bodies,
           cb[c] = <<>>, OnReadyStateDone(c, st, b)
    PROVE  /\ \A d \in Calls \ {c} : cb'[d] = cb[d]
           /\ \/ cb'[c] = <<>>
              \/ /\ Len(cb'[c]) = 1
                 /\ (cb'[c][1].kind = "success") <=> (st \in OkStatus /\ b \in {"xml", "mtom"})
<1>1. CASE StatusUnreadable(c, st)
  <2>1. st \notin OkStatus
    BY <1>1 DEF StatusUnreadable
  <2>2. /\ \A d \in Calls \ {c} : cb'[d] = cb[d]
        /\ Len(cb'[c]) = 1 /\ cb'[c][1].kind = "error"
    BY <1>1, DeliverOne DEF StatusUnreadable
  <2>3. QED
    BY <2>1, <2>2
<1>2. CASE /\ st \in StatusCodes \ OkStatus
           /\ Deliver(c, "error", None)
           /\ UNCHANGED parts
  <2>1. /\ \A d \in Calls \ {c} : cb'[d] = cb[d]
        /\ Len(cb'[c]) = 1 /\ cb'[c][1].kind = "error"
    BY <1>2, DeliverOne
  <2>2. QED
    BY <1>2, <2>1
<1>3. CASE /\ st \in OkStatus
           /\ b = "xml"
           /\ UNCHANGED parts
           /\ OnSuccess(c, b)
  BY <1>3, OnSuccessAnswer
<1>4. CASE /\ st \in OkStatus
           /\ b # "xml"
           /\ NoResponseXML(c, b)
  <2>1. CASE IsMultipartRelated(b) /\ ~ParseThrows(b) /\ OnSuccess(c, b)
    <3>1. b = "mtom"
      BY <2>1 DEF IsMultipartRelated, ParseThrows
    <3>2. QED
      BY <1>4, <2>1, <3>1, OnSuccessAnswer
  <2>2. CASE ~IsMultipartRelated(b) /\ Deliver(c, "error", None)
    <3>1. b \notin {"xml", "mtom"}
      BY <1>4, <2>2 DEF IsMultipartRelated
    <3>2. /\ \A d \in Calls \ {c} : cb'[d] = cb[d]
          /\ Len(cb'[c]) = 1 /\ cb'[c][1].kind = "error"
      BY <2>2, DeliverOne
    <3>3. QED
      BY <3>1, <3>2
  <2>3. CASE ParseThrows(b) /\ UNCHANGED cb
    BY <2>3
  <2>4. QED
    BY <1>4, <2>1, <2>2, <2>3 DEF NoResponseXML
<1>5. QED
  BY <1>1, <1>2, <1>3, <1>4 DEF OnReadyStateDone

\* Every step keeps CInv, whatever the callers do.
LEMMA CInvStep == CInv /\ [Next]_vars => CInv'
<1> SUFFICES ASSUME CInv, [Next]_vars PROVE CInv'
  OBVIOUS
<1>0. TypeOK /\ TypeOK'
  BY TypeStep DEF CInv
<1>1. ASSUME NEW c \in Calls, Invoke(c) PROVE CInv'
  <2>1. NotDoneUnanswered'
    BY <1>0, <1>1 DEF Invoke, CInv, NotDoneUnanswered, TypeOK
  <2>2. CallbackMatchesResponse'
    BY <1>1 DEF Invoke, CInv, CallbackMatchesResponse
  <2>3. QED
    BY <1>0, <2>1, <2>2 DEF CInv
<1>2. ASSUME NEW c \in Calls, Progress(c) PROVE CInv'
  <2>1. NotDoneUnanswered'
    BY <1>0, <1>2 DEF Progress, CInv, NotDoneUnanswered, TypeOK
  <2>2. CallbackMatchesResponse'
    BY <1>2 DEF Progress, CInv, CallbackMatchesResponse
  <2>3. QED
    BY <1>0, <2>1, <2>2 DEF CInv
<1>3. ASSUME NEW c \in Calls, Complete(c) PROVE CInv'
  <2>1. PICK st \in StatusCodes \cup {Unreadable}, b \in Bodies :
              /\ resp' = [resp EXCEPT ![c] = [status |-> st, body |-> b]]
              /\ OnReadyStateDone(c, st, b)
    BY <1>3 DEF Complete
  <2>2. cb[c] = <<>>
    BY <1>0, <1>3 DEF Complete, CInv, NotDoneUnanswered, TypeOK
  <2>3. /\ \A d \in Calls \ {c} : cb'[d] = cb[d]
        /\ \/ cb'[c] = <<>>
           \/ /\ Len(cb'[c]) = 1
              /\ (cb'[c][1].kind = "success") <=> (st \in OkStatus /\ b \in {"xml", "mtom"})
    BY <1>0, <2>1, <2>2, OnReadyStateDoneAnswer
  <2>4. /\ resp'[c] = [status |-> st, body |-> b]
        /\ \A d \in Calls \ {c} : resp'[d] = resp[d] /\ rs'[d] = rs[d]
        /\ rs'[c] = DONE
    BY <1>0, <1>3, <2>1 DEF Complete, TypeOK
  <2>5. NotDoneUnanswered'
    BY <2>3, <2>4 DEF CInv, NotDoneUnanswered
  <2>6. resp'[c] # None
    BY <2>4 DEF Response
  <2>7. CallbackMatchesResponse'
    BY <2>3, <2>4, <2>6 DEF CInv, CallbackMatchesResponse
  <2>8. QED
    BY <1>0, <2>5, <2>7 DEF CInv
<1>4. CASE Quiescent
  BY <1>0, <1>4 DEF Quiescent, vars, CInv, NotDoneUnanswered, CallbackMatchesResponse
<1>5. CASE UNCHANGED vars
  BY <1>0, <1>5 DEF vars, CInv, NotDoneUnanswered, CallbackMatchesResponse
<1>6. QED
  BY <1>1, <1>2, <1>3, <1>4, <1>5 DEF Next

(* Under any interleaving of synchronous and asynchronous calls on shared  *)
(* service objects, and any response (malformed ones included),            *)
(* onReadyState answers each call at most once, with onsuccess exactly     *)
(* when the status is 200 or 0 and the body is usable.                     *)
THEOREM CallbackMatchesResponseHolds == Spec => []CallbackMatchesResponse
<1>1. Init => CInv
  BY DEF Init, CInv, TypeOK, NotDoneUnanswered, CallbackMatchesResponse
<1>2. CInv => CallbackMatchesResponse
  BY DEF CInv
<1>3. QED
  BY <1>1, <1>2, CInvStep, PTL DEF Spec

-----------------------------------------------------------------------------
(* Attachment integrity when callers wait for their answers.               *)

\* A call is answered only once its request is DONE.
AnsweredOnlyWhenDone == \A c \in Calls : rs[c] # DONE => cb[c] = <<>>

\* While a call's request is in flight, its client is its service's
\* utils.client (when callers wait).
PendingOwnsUtils ==
    \A c \in Calls : rs[c] \in OPENED .. DONE - 1 => client[Svc[c]] = c

\* A client's attachment table holds at most its own response's content id.
TableHoldsOwnCid == \A c \in Calls : parts[c] \in (SUBSET {c}) \cup {None}

(* The inductive invariant: AttachmentIntegrity alone is not inductive,    *)
(* since the step that answers a call reads utils.client and the table of  *)
(* the client found there.                                                 *)
IInv ==
    /\ TypeOK
    /\ AnsweredOnlyWhenDone
    /\ PendingOwnsUtils
    /\ TableHoldsOwnCid
    /\ AttachmentIntegrity

(* The generated onsuccess, for a call whose client is its service's      *)
(* utils.client and whose table holds its attachment when the body is     *)
(* MTOM, answers the call with its own attachment or not at all.           *)
LEMMA OnSuccessIntegrity ==
    ASSUME TypeOK, NEW c \in Calls, NEW b \in Bodies,
           cb[c] = <<>>, client[Svc[c]] = c,
           b = "mtom" => parts'[c] = {c},
           OnSuccess(c, b)
    PROVE  /\ \/ cb'[c] = <<>>
              \/ cb'[c] = <<[kind |-> "success", attach |-> c]>>
           /\ \A d \in Calls \ {c} : cb'[d] = cb[d]
<1>1. CASE b = "xml" /\ Deliver(c, "success", c)
  BY <1>1, DeliverShape
<1>2. CASE /\ b = "mtom"
           /\ Deliver(c, "success",
                 DeserializeBase64orMom(c, parts'[client[Svc[c]]]))
  <2>1. DeserializeBase64orMom(c, parts'[client[Svc[c]]]) = c
    BY <1>2 DEF DeserializeBase64orMom
  <2>2. QED
    BY <1>2, <2>1, DeliverShape
<1>3. CASE UNCHANGED cb
  BY <1>3
<1>4. QED
  BY <1>1, <1>2, <1>3 DEF OnSuccess

(* The DONE branch, run for a call whose client is its service's           *)
(* utils.client, answers that call at most once, with its own attachment   *)
(* on success, and touches no other call's table or answers.               *)
LEMMA OnReadyStateDoneIntegrity ==
    ASSUME TypeOK, TableHoldsOwnCid, NEW c \in Calls,
           NEW st \in StatusCodes \cup {Unreadable}, NEW b \in Bodies,
           cb[c] = <<>>, client[Svc[c]] = c,
           OnReadyStateDone(c, st, b)
    PROVE  /\ \A d \in Calls \ {c} : cb'[d] = cb[d] /\ parts'[d] = parts[d]
           /\ parts'[c] \in (SUBSET {c}) \cup {None}
           /\ \/ cb'[c] = <<>>
              \/ cb'[c] = <<[kind |-> "error", attach |-> None]>>
              \/ cb'[c] = <<[kind |-> "success", attach |-> c]>>
<1>1. CASE StatusUnreadable(c, st)
  BY <1>1, DeliverShape DEF StatusUnreadable, TableHoldsOwnCid
<1>2. CASE /\ st \in StatusCodes \ OkStatus
           /\ Deliver(c, "error", None)
           /\ UNCHANGED parts
  BY <1>2, DeliverShape DEF TableHoldsOwnCid
<1>3. CASE /\ st \in OkStatus
           /\ b = "xml"
           /\ UNCHANGED parts
           /\ OnSuccess(c, b)
  BY <1>3, OnSuccessIntegrity DEF TableHoldsOwnCid
<1>4. CASE /\ st \in OkStatus
           /\ b # "xml"
           /\ NoResponseXML(c, b)
  <2>1. parts' = [parts EXCEPT ![c] = ParseMultipartRelated(c, b)]
    BY <1>4 DEF NoResponseXML
  <2>2. /\ \A d \in Calls \ {c} : parts'[d] = parts[d]
        /\ parts'[c] \in (SUBSET {c}) \cup {None}
        /\ b = "mtom" => parts'[c] = {c}
    BY <2>1 DEF TypeOK, TableHoldsOwnCid, ParseMultipartRelated
  <2>3. CASE IsMultipartRelated(b) /\ ~ParseThrows(b) /\ OnSuccess(c, b)
    BY <2>2, <2>3, OnSuccessIntegrity
  <2>4. CASE ~IsMultipartRelated(b) /\ Deliver(c, "error", None)
    BY <2>2, <2>4, DeliverShape
  <2>5. CASE ParseThrows(b) /\ UNCHANGED cb
    BY <2>2, <2>5
  <2>6. QED
    BY <1>4, <2>3, <2>4, <2>5 DEF NoResponseXML
<1>5. QED
  BY <1>1, <1>2, <1>3, <1>4 DEF OnReadyStateDone

(* When callers wait for the answer before calling the same service      *)
(* again, every step keeps the inductive invariant: the client a DONE      *)
(* handler finds in utils.client is the client of the call it answers.     *)
LEMMA IInvStep ==
    ASSUME CallerWaits
    PROVE  IInv /\ [Next]_vars => IInv'
<1> SUFFICES ASSUME IInv, [Next]_vars PROVE IInv'
  OBVIOUS
<1>0. TypeOK /\ TypeOK'
  BY TypeStep DEF IInv
<1>1. ASSUME NEW c \in Calls, Invoke(c) PROVE IInv'
  <2>1. AnsweredOnlyWhenDone'
    BY <1>1 DEF Invoke, NewClient, IInv, AnsweredOnlyWhenDone
  <2>2. PendingOwnsUtils'
    <3>1. ASSUME NEW d \in Calls, rs'[d] \in OPENED .. DONE - 1
          PROVE  client'[Svc[d]] = d
      <4>1. CASE d = c
        BY <1>1, <4>1, <1>0 DEF Invoke, NewClient, TypeOK
      <4>2. CASE d # c /\ Svc[d] = Svc[c]
        <5>1. rs[d] \in OPENED .. DONE - 1
          BY <1>1, <3>1, <4>2, <1>0 DEF Invoke, NewClient, TypeOK
        <5>2. cb[d] # <<>>
          BY <1>1, <4>2, <5>1 DEF Invoke
        <5>3. FALSE
          BY <5>1, <5>2 DEF IInv, AnsweredOnlyWhenDone
        <5>4. QED
          BY <5>3
      <4>3. CASE d # c /\ Svc[d] # Svc[c]
        BY <1>1, <3>1, <4>3, <1>0 DEF Invoke, NewClient, TypeOK, IInv, PendingOwnsUtils
      <4>4. QED
        BY <4>1, <4>2, <4>3
    <3>2. QED
      BY <3>1 DEF PendingOwnsUtils
  <2>3. QED
    BY <1>0, <1>1, <2>1, <2>2
       DEF Invoke, NewClient, IInv, TableHoldsOwnCid, AttachmentIntegrity
<1>2. ASSUME NEW c \in Calls, Progress(c) PROVE IInv'
  BY <1>0, <1>2 DEF Progress, IInv, TypeOK, AnsweredOnlyWhenDone,
                    PendingOwnsUtils, TableHoldsOwnCid, AttachmentIntegrity
<1>3. ASSUME NEW c \in Calls, Complete(c) PROVE IInv'
  <2>1. PICK st \in StatusCodes \cup {Unreadable}, b \in Bodies :
              OnReadyStateDone(c, st, b)
    BY <1>3 DEF Complete
  <2>2. cb[c] = <<>> /\ client[Svc[c]] = c
    BY <1>3 DEF Complete, IInv, AnsweredOnlyWhenDone, PendingOwnsUtils
  <2>3. /\ \A d \in Calls \ {c} : cb'[d] = cb[d] /\ parts'[d] = parts[d]
        /\ parts'[c] \in (SUBSET {c}) \cup {None}
        /\ \/ cb'[c] = <<>>
           \/ cb'[c] = <<[kind |-> "error", attach |-> None]>>
           \/ cb'[c] = <<[kind |-> "success", attach |-> c]>>
    BY <2>1, <2>2, OnReadyStateDoneIntegrity DEF IInv
  <2>4. AnsweredOnlyWhenDone'
    BY <1>0, <1>3, <2>3 DEF Complete, IInv, AnsweredOnlyWhenDone, TypeOK
  <2>5. PendingOwnsUtils'
    BY <1>0, <1>3 DEF Complete, IInv, PendingOwnsUtils, TypeOK
  <2>6. TableHoldsOwnCid'
    BY <2>3 DEF IInv, TableHoldsOwnCid
  <2>7. AttachmentIntegrity'
    BY <2>3 DEF IInv, AttachmentIntegrity
  <2>8. QED
    BY <1>0, <2>4, <2>5, <2>6, <2>7 DEF IInv
<1>4. CASE Quiescent \/ UNCHANGED vars
  BY <1>4 DEF Quiescent, vars, IInv, TypeOK, AnsweredOnlyWhenDone,
              PendingOwnsUtils, TableHoldsOwnCid, AttachmentIntegrity
<1>5. QED
  BY <1>1, <1>2, <1>3, <1>4 DEF Next

(* When callers wait for the answer before calling the same service again, *)
(* every successful answer carries the call's own attachment: the shared    *)
(* utils.client of the service object is then always the client of the     *)
(* call being answered.                                                     *)
THEOREM AttachmentIntegrityWhenCallersWait ==
    ASSUME CallerWaits
    PROVE  Spec => []AttachmentIntegrity
<1>1. Init => IInv
  BY DEF Init, IInv, TypeOK, AnsweredOnlyWhenDone, PendingOwnsUtils,
         TableHoldsOwnCid, AttachmentIntegrity
<1>2. IInv /\ [Next]_vars => IInv'
  BY IInvStep
<1>3. IInv => AttachmentIntegrity
  BY DEF IInv
<1>4. QED
  BY <1>1, <1>2, <1>3, PTL DEF Spec

-----------------------------------------------------------------------------
(* Refinement of CallAbstract when callers wait for their answers.         *)

\* The initial state is the abstract initial state: no call made, none
\* answered.
LEMMA RefinementInit == Init => Abs!Init
BY DEF Init, Abs!Init

(* A step of the client is a step of CallAbstract or leaves the calls made *)
(* and the answers unchanged: request() makes exactly one call, and the    *)
(* DONE handler answers only the call it runs for, once.                   *)
LEMMA RefinementStep ==
    ASSUME CallerWaits
    PROVE  IInv /\ [Next]_vars => [Abs!Next]_Abs!vars
<1> SUFFICES ASSUME IInv, [Next]_vars PROVE [Abs!Next]_Abs!vars
  OBVIOUS
<1>1. ASSUME NEW c \in Calls, Invoke(c) PROVE Abs!Request(c)
  <2>1. c \notin {d \in Calls : rs[d] # UNSENT}
    BY <1>1 DEF Invoke
  <2>2. {d \in Calls : rs'[d] # UNSENT} = {d \in Calls : rs[d] # UNSENT} \cup {c}
    BY <1>1 DEF Invoke, IInv, TypeOK
  <2>3. QED
    BY <1>1, <2>1, <2>2 DEF Invoke, Abs!Request
<1>2. ASSUME NEW c \in Calls, Progress(c) PROVE UNCHANGED Abs!vars
  BY <1>2 DEF Progress, Abs!vars, IInv, TypeOK
<1>3. ASSUME NEW c \in Calls, Complete(c) PROVE [Abs!Next]_Abs!vars
  <2>1. PICK st \in StatusCodes \cup {Unreadable}, b \in Bodies :
              OnReadyStateDone(c, st, b)
    BY <1>3 DEF Complete
  <2>2. cb[c] = <<>> /\ client[Svc[c]] = c /\ rs[c] # UNSENT
    BY <1>3 DEF Complete, IInv, AnsweredOnlyWhenDone, PendingOwnsUtils
  <2>3. /\ \A d \in Calls \ {c} : cb'[d] = cb[d]
        /\ \/ cb'[c] = <<>>
           \/ cb'[c] = <<[kind |-> "error", attach |-> None]>>
           \/ cb'[c] = <<[kind |-> "success", attach |-> c]>>
    BY <2>1, <2>2, OnReadyStateDoneIntegrity DEF IInv
  <2>4. {d \in Calls : rs'[d] # UNSENT} = {d \in Calls : rs[d] # UNSENT}
    BY <1>3, <2>2 DEF Complete, IInv, TypeOK
  <2>5. CASE cb'[c] = <<>>
    <3>1. cb' = cb
      BY <2>3, <2>5, <2>2, <1>3 DEF Complete, OnReadyStateDone, IInv, TypeOK,
         StatusUnreadable, NoResponseXML, OnSuccess, Deliver
    <3>2. QED
      BY <2>4, <3>1 DEF Abs!vars
  <2>6. CASE cb'[c] # <<>>
    <3>1. PICK o \in Abs!Outcome(c) : cb'[c] = <<o>>
      BY <2>3, <2>6 DEF Abs!Outcome
    <3>2. cb' = [cb EXCEPT ![c] = <<o>>]
      BY <2>1, <2>3, <3>1 DEF OnReadyStateDone, StatusUnreadable, NoResponseXML,
         OnSuccess, Deliver, IInv, TypeOK
    <3>3. Abs!Answer(c)
      BY <2>2, <2>4, <3>2 DEF Abs!Answer
    <3>4. QED
      BY <3>3 DEF Abs!Next
  <2>7. QED
    BY <2>5, <2>6
<1>4. CASE Quiescent \/ UNCHANGED vars
  BY <1>4 DEF Quiescent, vars, Abs!vars
<1>5. QED
  BY <1>1, <1>2, <1>3, <1>4 DEF Next, Abs!Next

(* When callers wait for the answer before calling the same service again, *)
(* the client runtime implements the safety part of CallAbstract: every    *)
(* call made is answered at most once, by onerror or by onsuccess with its *)
(* own attachment.                                                         *)
THEOREM ImplementsCallAbstractSafety ==
    ASSUME CallerWaits
    PROVE  Spec => Abs!SafeSpec
<1>1. Init => IInv
  BY DEF Init, IInv, TypeOK, AnsweredOnlyWhenDone, PendingOwnsUtils,
         TableHoldsOwnCid, AttachmentIntegrity
<1>2. IInv /\ [Next]_vars => IInv'
  BY IInvStep
<1>3. IInv /\ [Next]_vars => [Abs!Next]_Abs!vars
  BY RefinementStep
<1>4. QED
  BY <1>1, <1>2, <1>3, RefinementInit, PTL DEF Spec, Abs!SafeSpec

=============================================================================
