------------------------------- MODULE Target -------------------------------
(***************************************************************************)
(* The target of a scan (packages/scan/src/target): what Target makes of   *)
(* its options, how Body and its converters turn a body into text, and the *)
(* request that is stored as an entry point.                               *)
(*                                                                         *)
(* A body is known by its kind and the text made of it by the converter    *)
(* that makes it, a query string by where its parts come from.             *)
(***************************************************************************)
EXTENDS Sequences, SequencesExt

(* "get" stands for a method in lower case, "CUSTOM" for an unknown one. *)
Methods == {"GET", "get", "HEAD", "POST", "CUSTOM"}
KnownMethods == Methods \ {"CUSTOM"}

Strings == {"jsonString", "xmlString", "text"}
Bodies ==
    Strings \cup {"null", "number", "object", "iterable", "asyncIterable", "buffer",
                  "form", "params", "blob", "jsonBlob", "stream"}

MimeTypes == {"json", "xml", "plain", "octet", "urlencoded", "multipart"}
NoMime == "none"
NoBody == "none"

(* The registry asks its converters in this order. *)
Converters ==
    <<"ArrayBuffer", "FormData", "URLSearchParams", "Blob", "Stream", "Json",
      "String", "Iterable", "AsyncIterable">>

(* What canHandle() accepts, short of what an earlier converter takes. *)
Handles ==
    [ArrayBuffer |-> {"buffer"}, FormData |-> {"form"}, URLSearchParams |-> {"params"},
     Blob |-> {"blob", "jsonBlob"}, Stream |-> {"stream"}, Json |-> {"object"},
     String |-> Strings, Iterable |-> {"iterable"}, AsyncIterable |-> {"asyncIterable"}]

CanHandle(converter, body, mime) ==
    body \in Handles[converter] \/ (converter = "Json" /\ mime = "json")

GetConverter(body, mime) ==
    LET i == SelectInSeq(Converters, LAMBDA c : CanHandle(c, body, mime))
    IN  IF i = 0 THEN "none" ELSE Converters[i]

(* Body.text(): the conversion the text is the result of. *)
Text(body, mime) ==
    IF body \in {NoBody, "null"} THEN body
    ELSE LET c == GetConverter(body, mime) IN IF c = "none" THEN "toString" ELSE c

MimeOfString == [jsonString |-> "json", xmlString |-> "xml", text |-> "plain"]

(* getMimeType() of the converters. *)
MimeOf(converter, body) ==
    CASE converter = "String" -> MimeOfString[body]
      [] converter = "Json" -> "json"
      [] converter = "URLSearchParams" -> "urlencoded"
      [] converter = "FormData" -> "multipart"
      [] converter = "Blob" /\ body = "jsonBlob" -> "json"
      [] converter = "none" -> NoMime
      [] OTHER -> "octet"

(* Body.type() of a body for which no content type was given. *)
GuessedType(body) ==
    IF body = "null" THEN "plain" ELSE MimeOf(GetConverter(body, NoMime), body)
-----------------------------------------------------------------------------
(* TargetOptions: the parts of url, the query option ("empty" is {}), the  *)
(* body and the content type among the headers.                            *)
TargetOptions ==
    [method : Methods, search : {<<>>, <<"url">>}, fragment : BOOLEAN,
     query : {"none", "empty", "given"},
     body : Bodies \cup {NoBody}, header : {NoMime, "json", "plain"}]

KnownMethod(method) == IF method \in KnownMethods THEN method ELSE "GET"

(* The setter of body: the comparison with GET and HEAD is case-sensitive. *)
BodyRefused(o) == o.body # NoBody /\ KnownMethod(o.method) \in {"GET", "HEAD"}

(* The query option replaces the one of the URL; and one that is added.    *)
AddedQuery(o) == IF o.query = "given" THEN Append(o.search, "given") ELSE o.search
ReplacedQuery(o) ==
    CASE o.query = "given" -> <<"given">>
      [] o.query = "empty" -> <<>>
      [] OTHER -> o.search

(* The constructor, for options it accepts. *)
MakeTarget(o) ==
    [o EXCEPT !.method = KnownMethod(o.method), !.search = ReplacedQuery(o)]

(* The getter of headers: what was given, else what the body suggests. *)
ContentType(t) ==
    IF t.header # NoMime \/ t.body = NoBody THEN t.header ELSE GuessedType(t.body)

(* A target made of another target: it reads the getters of that one.      *)
Copy(t) == MakeTarget([t EXCEPT !.header = ContentType(t)])

(* What createEntrypoint() stores of a target. *)
Request(t) ==
    [method |-> t.method, search |-> t.search, fragment |-> t.fragment,
     header |-> ContentType(t), text |-> Text(t.body, t.header)]
=============================================================================
