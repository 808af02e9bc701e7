------------------------------- MODULE Building -------------------------------
(***************************************************************************)
(* What main makes of the files a configuration names: decoders            *)
(* (DecoderConfig::build and ProtobufDecoder::from_config in src/decoder)  *)
(* and credentials (src/auth.rs).  A path is the sequence of its names,    *)
(* with "/" for the first if it is absolute.                               *)
(***************************************************************************)
EXTENDS Decoding

CONSTANTS
    BaseDir,   \* the directory of the configuration file
    Disk,      \* path -> content of every file that can be read
    Env        \* the environment variables that are set

\* Contents, by what the readers can tell of them.
SchemaType == [kind : {"schema"}, valid : BOOLEAN,
               imports : SUBSET PathType, messages : SUBSET STRING]
CertType == [subject : STRING, issuer : STRING, key : STRING]
PemType == [kind : {"pem"}, valid : BOOLEAN,
            certs : Seq(CertType), keys : Seq(STRING)]

ASSUME BuildingAssumption ==
    /\ BaseDir \in PathType \ {<< >>}
    /\ \A p \in DOMAIN Disk : p \in PathType /\ Disk[p] \in SchemaType \cup PemType

----------------------------------------------------------------------------
(* Paths *)

IsAbsolute(p) == p # << >> /\ Head(p) = "/"

ResolvePath(p) == IF IsAbsolute(p) THEN p ELSE BaseDir \o p

Parent(p) == SubSeq(p, 1, Len(p) - 1)

Readable(p) == ResolvePath(p) \in DOMAIN Disk

----------------------------------------------------------------------------
(* ProtobufDecoder::from_config *)

Schemas == {p \in DOMAIN Disk : Disk[p].kind = "schema"}

\* The include paths before the schema's own directory (a mutant of
\* IncludeDirs).
IncludeDirsOwnLast(d) ==
    Append([i \in DOMAIN d.includePaths |-> ResolvePath(d.includePaths[i])],
           Parent(ResolvePath(d.protoFile)))

\* The schema's own directory, and the include paths behind it.
IncludeDirs(d) ==
    <<Parent(ResolvePath(d.protoFile))>>
        \o [i \in DOMAIN d.includePaths |-> ResolvePath(d.includePaths[i])]

\* protox takes an import from the first directory that has it.
Providers(dirs, import) == {i \in DOMAIN dirs : dirs[i] \o import \in Schemas}

Provided(dirs, import) ==
    LET first == CHOOSE i \in Providers(dirs, import) :
                    \A j \in Providers(dirs, import) : i <= j
    IN  dirs[first] \o import

ImportsOf(dirs, file) ==
    {Provided(dirs, import) :
        import \in {p \in Disk[file].imports : Providers(dirs, p) # {}}}

\* The files compiled with some: the least set that holds them and their imports.
Closure(dirs, files) ==
    {file \in Schemas :
        \A S \in SUBSET Schemas :
            files \subseteq S /\ (\A g \in S : ImportsOf(dirs, g) \subseteq S) => file \in S}

Compiles(dirs, root) ==
    /\ root \in Schemas
    /\ \A file \in Closure(dirs, {root}) :
        /\ Disk[file].valid
        /\ \A import \in Disk[file].imports : Providers(dirs, import) # {}
        /\ file \notin Closure(dirs, ImportsOf(dirs, file))

\* The message type may be declared in any of the files compiled.  What protox
\* has compiled is taken to be a descriptor set that prost-reflect accepts: the
\* Descriptor error is left out.
ProtobufResult(d) ==
    LET dirs == IncludeDirs(d)
        root == ResolvePath(d.protoFile)
    IN  IF ~Compiles(dirs, root) THEN "Compile"
        ELSE IF \A file \in Closure(dirs, {root}) : d.messageType \notin Disk[file].messages
        THEN "UnknownMessageType"
        ELSE "Ok"

BuildErrors == {"Compile", "UnknownMessageType", "Parse"}

\* TemplateDecoder::from_config.
TemplateResult(d) == IF d.parses THEN "Ok" ELSE "Parse"

\* DecoderConfig::build.
BuildResult(d) ==
    CASE d.kind \in {"hexdump", "utf8"} -> "Ok"
      [] d.kind = "protobuf" -> ProtobufResult(d)
      [] d.kind = "template" -> TemplateResult(d)

----------------------------------------------------------------------------
(* AuthConfig *)

NoAuth == [method |-> "none"]
MtlsType == [method : {"mtls"}, ca : PathType, cert : PathType, key : PathType]

\* The password stands in the file, or in an environment variable.
UserPassType == [method : {"userpass"}, env : Optional(STRING)]

AuthType == {NoAuth} \cup MtlsType \cup UserPassType

AuthErrors == {"Io", "EnvVar"}

\* AuthConfig::build: whether the password, or the files, can be read.
UserPassResult(a) == IF a.env \subseteq Env THEN "Ok" ELSE "EnvVar"

MtlsResult(a) == IF \A p \in {a.ca, a.cert, a.key} : Readable(p) THEN "Ok" ELSE "Io"

AuthResult(a) ==
    CASE a.method = "none" -> "Ok"
      [] a.method = "mtls" -> MtlsResult(a)
      [] a.method = "userpass" -> UserPassResult(a)

\* What the PEM parser finds in a file; it skips what is no PEM block.
Pem(p) ==
    LET content == Disk[ResolvePath(p)]
    IN  IF content.kind = "pem" THEN content
        ELSE [kind |-> "pem", valid |-> TRUE, certs |-> << >>, keys |-> << >>]
============================================================================
