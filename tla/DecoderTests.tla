----------------------------- MODULE DecoderTests -----------------------------
(***************************************************************************)
(* The unit tests of src/decoder that call decode, as facts about Decoding: *)
(* what the model says of a decoder and a payload is what the code was     *)
(* tested to do.  TLC evaluates them.                                      *)
(***************************************************************************)
EXTENDS Decoding

Field(name) == <<"payload", name>>
Shown(paths) == {[path |-> p, how |-> "print"] : p \in paths}

\* A template with text of its own.
Template(paths, undefined) ==
    [kind |-> "template", parses |-> TRUE, literal |-> TRUE, uses |-> Shown(paths),
     undefined |-> undefined]

PlainText == [form |-> "text", empty |-> FALSE, fields |-> {}, wire |-> {}]
Json(names) == [PlainText EXCEPT !.form = "json", !.fields = {<<n>> : n \in names}]
Bytes(wire) == [PlainText EXCEPT !.form = "binary", !.wire = wire]

Test(decoder, payload, result) ==
    [decoder |-> decoder, payload |-> payload, result |-> result]

TemplateTests ==
    LET device == Field("device_id")
        packet == {<<name>> : name \in ContextNames \ {"payload"}}
        unknown == <<"does_not_exist">>
    IN  {Test(Template({device, Field("temperature_c")}, "strict"),
              Json({"device_id", "temperature_c"}), "Ok"),
         Test(Template(packet, "strict"), PlainText, "Ok"),
         Test(Template({<<"payload">>}, "strict"), PlainText, "Ok"),
         Test(Template({<<"payload">>}, "strict"), Bytes({}), "Ok"),
         Test(Template({device}, "strict"), PlainText, "Render"),
         Test(Template({unknown}, "strict"), PlainText, "Render"),
         Test(Template({unknown}, "lenient"), PlainText, "Ok")}

ProtobufTests ==
    LET reading == [kind |-> "protobuf", protoFile |-> <<"device.proto">>,
                    messageType |-> "DeviceReading", includePaths |-> << >>]
    IN  {Test(reading, Bytes({"DeviceReading"}), "Ok"), Test(reading, Bytes({}), "Decode")}

Utf8Tests == {Test(Utf8, PlainText, "Ok"), Test(Utf8, Bytes({}), "Utf8")}

HexdumpTests == {Test(Hexdump, Bytes({}), "Ok")}

ASSUME DecodersAsTested ==
    \A test \in TemplateTests \cup ProtobufTests \cup Utf8Tests \cup HexdumpTests :
        /\ test.decoder \in DecoderConfigType
        /\ Decode(test.decoder, test.payload).result = test.result
============================================================================
