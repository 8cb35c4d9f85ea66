------------------------------ MODULE JsValues ------------------------------
(***************************************************************************)
(* The JavaScript values the helpers of cxf-utils.js return besides       *)
(* strings: null, and the TypeError raised by reading a property of null. *)
(* A string is a sequence of tokens; these two are sequences no string    *)
(* of the models is.                                                       *)
(***************************************************************************)
Null == << "(null)" >>
TypeError == << "(TypeError)" >>
=============================================================================
