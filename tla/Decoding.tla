------------------------------- MODULE Decoding -------------------------------
(***************************************************************************)
(* The built-in decoders of src/decoder: what each configuration says, and *)
(* what a decoder made from it sends for a message.  Bytes are abstracted  *)
(* to what a decoder can tell of them, so a payload is a record            *)
(*   form    "text" or "json" if it is UTF-8, else "binary"                *)
(*   empty   whether it has no bytes at all, which is text                 *)
(*   fields  the paths of the fields of a JSON payload                     *)
(*   wire    the protobuf message types it decodes as, and that can be     *)
(*           written as JSON: failing at either is the same error          *)
(* with any further field that tells two payloads apart.                   *)
(***************************************************************************)
EXTENDS DecodePublish

PathType == Seq(STRING)

UndefinedBehavior == {"strict", "semi_strict", "lenient", "chainable"}

\* A reference of a template: the variable or field it names, and its use.
UseType == [path : PathType \ {<< >>}, how : {"print", "iterate", "test"}]

\* DecoderConfig.  A template is its references; `parses` says whether its
\* syntax is valid, `literal` whether it has text of its own.
Hexdump == [kind |-> "hexdump"]
Utf8 == [kind |-> "utf8"]
ProtobufType == [kind : {"protobuf"}, protoFile : PathType,
                 messageType : STRING, includePaths : Seq(PathType)]
TemplateType == [kind : {"template"}, parses : BOOLEAN, literal : BOOLEAN,
                 uses : SUBSET UseType, undefined : UndefinedBehavior]

DecoderConfigType == {Hexdump, Utf8} \cup ProtobufType \cup TemplateType

----------------------------------------------------------------------------
(* Templates *)

ContextNames == {"topic", "qos", "retain", "dup", "pkid", "payload"}

\* payload_value: only a JSON payload can be indexed; text is a string, and
\* anything else a string of hex digits.
PayloadFields(p) == IF p.form = "json" THEN p.fields ELSE {}

Defined(path, p) ==
    /\ Head(path) \in ContextNames
    /\ Len(path) > 1 => Head(path) = "payload" /\ Tail(path) \in PayloadFields(p)

\* Only "chainable" looks a field of something undefined up.
Reachable(behavior, path, p) ==
    \/ Len(path) = 1
    \/ Defined(SubSeq(path, 1, Len(path) - 1), p)
    \/ behavior = "chainable"

\* What may be done with an undefined value.
Tolerates(behavior, how) ==
    CASE behavior = "strict" -> FALSE
      [] behavior = "semi_strict" -> how = "test"
      [] behavior \in {"lenient", "chainable"} -> TRUE

Renders(d, p) ==
    \A use \in d.uses :
        \/ Defined(use.path, p)
        \/ Reachable(d.undefined, use.path, p) /\ Tolerates(d.undefined, use.how)

\* Nothing but undefined values and the empty payload is printed.
RendersBlank(d, p) ==
    /\ ~d.literal
    /\ \A use \in d.uses : use.how = "print" /\ Defined(use.path, p) =>
            use.path = <<"payload">> /\ p.empty

----------------------------------------------------------------------------
(* Decoder::decode *)

\* A decoder sends one payload and returns Ok, or it returns an error.
Sends(p) == [result |-> "Ok", payload |-> p]
Fails(e) == [result |-> e]

\* Text made of payload p; as a payload itself, it has no structure.
Text(by, p, empty) ==
    [by |-> by, of |-> p, empty |-> empty, form |-> "text", fields |-> {}, wire |-> {}]

\* The digits, and the number of bytes behind them.
HexdumpDecode(p) == Sends(Text("hexdump", p, FALSE))

\* The same bytes.
Utf8Decode(p) == IF p.form = "binary" THEN Fails("Utf8") ELSE Sends(p)

\* A JSON object, so never without a byte; the wire format does not say which
\* message it is.
ProtobufDecode(d, p) ==
    IF d.messageType \in p.wire THEN Sends(Text("protobuf", p, FALSE)) ELSE Fails("Decode")

\* Of the variables of a template only the payload and what it holds may make
\* a difference: the others are always defined, and templates that render
\* otherwise for another qos, retain, dup or pkid are left out.
TemplateDecode(d, p) ==
    IF Renders(d, p) THEN Sends(Text("template", p, RendersBlank(d, p))) ELSE Fails("Render")

Decode(d, p) ==
    CASE d.kind = "hexdump" -> HexdumpDecode(p)
      [] d.kind = "utf8" -> Utf8Decode(p)
      [] d.kind = "protobuf" -> ProtobufDecode(d, p)
      [] d.kind = "template" -> TemplateDecode(d, p)

\* "decode error: {e} (raw hex: {hex})"
ErrorReport(e, p) == Text(e, p, FALSE)

\* The one publish that a message leads to: what the decoder sent, or the
\* report of the error it returned.  Either is resolved against the message.
AnswerTo(d, message) ==
    LET p == message.payload
        decoded == Decode(d, p)
    IN  Resolved(IF decoded.result = "Ok" THEN Plainly(decoded.payload)
                 ELSE ErrorPublish(message, ErrorReport(decoded.result, p)),
                 message)
============================================================================
