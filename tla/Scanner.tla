------------------------------- MODULE Scanner -------------------------------
(***************************************************************************)
(* The static scanner: StaticArtifactScanner (src/palsy/scanner.py), a     *)
(* function of a file's bytes, its name and the ecosystem it is scanned    *)
(* for.  A finding is its rule; descriptions and evidence are left out, and *)
(* a regular expression is a trait that a text has or has not.             *)
(***************************************************************************)
EXTENDS Naturals, Sequences

CONSTANTS Requirements, Imports  \* of a wheel: see Content

Ecosystems == {"pypi", "npm", "oci", "generic"}

\* What the scanner tells of a name, by its ending.
Archives == {"tar.gz", "tgz", "tar", "zip"}
Forms == Archives \cup {"whl", "oci.json", "text", "native", "other"}

\* Members of an archive, by name: setup.py, sitecustomize.py, __init__.py,
\* index.js, package.json, the executables "node" and "curl", or by extension.
Python == {"setup", "customize", "init", "py"}
Javascript == {"index", "js", "ts"}
Text == Python \cup Javascript \cup {"package", "pth", "txt", "yaml"}
Kinds == Text \cup {"native", "node", "curl", "opaque"}
Places == {"absolute", "dotdot", "hidden", "interpreter", "src"}
Traits == {"credential", "network", "subprocess", "blob", "import", "call", "spawn",
           "lifecycle", "malformed", "unreadable"}

Member == [kind : Kinds, at : SUBSET Places, size : Nat, has : SUBSET Traits]

\* Bytes: an archive, compressed if it is a tar, an OCI bundle, or other data,
\* which may be cut short.  A wheel has a RECORD, requirements, ten to an
\* element, and modules, each given by what its import does; its RECORD is broken
\* when it, the metadata or a file it lists cannot be read, or a hash in it not
\* decoded.  An image has a configuration, which is odd when the document, or a
\* part of it, is of another type than the scanner expects.
Content == [format : {"zip", "tar", "json", "data"}, whole : BOOLEAN, members : SUBSET Member,
            record : {"missing", "mismatch", "unchecked", "matching", "broken"},
            requires : SUBSET Requirements, modules : Seq(SUBSET Imports),
            image : SUBSET {"root", "secret", "shell", "network", "odd"},
            size : Nat, has : SUBSET Traits]

SeverityOf ==
    [path_traversal |-> 4, native_code |-> 2, hidden_runtime_dir |-> 3, embedded_interpreter |-> 3,
     startup_customize |-> 3, package_json_parse_error |-> 2, large_text_blob |-> 3,
     member_read_error |-> 2, pth_exec |-> 4, init_sensitive_behaviour |-> 3,
     top_level_sensitive_call |-> 3, top_level_sensitive_js |-> 3, credential_reference |-> 2,
     network_reference |-> 1, obfuscation_signal |-> 3, lifecycle_script |-> 3, bad_archive |-> 4,
     record_missing |-> 3, record_hash_mismatch |-> 4, bundle_parse_error |-> 4,
     runs_as_root |-> 2, secret_like_env |-> 3, shell_entrypoint |-> 2, history_network |-> 1]

\* The capabilities that the policy reads, by the rule that sets them.
CapabilityOf ==
    [native_code |-> "native_code", hidden_runtime_dir |-> "hidden_runtime",
     embedded_interpreter |-> "embedded_interpreter", pth_exec |-> "pth_exec",
     init_sensitive_behaviour |-> "import_time_sensitive",
     top_level_sensitive_call |-> "import_time_sensitive",
     top_level_sensitive_js |-> "import_time_sensitive",
     network_reference |-> "references_network", history_network |-> "references_network",
     lifecycle_script |-> "lifecycle_scripts"]

When(condition, rule) == IF condition THEN {rule} ELSE {}

\* _scan_member_names; a component of dots is hidden, too.
NameFindings(m) ==
    When(m.at \cap {"absolute", "dotdot"} # {}, "path_traversal")
    \cup When(m.kind \in {"native", "node", "curl"}, "native_code")
    \cup When(m.at \cap {"hidden", "dotdot"} # {}, "hidden_runtime_dir")
    \cup When("interpreter" \in m.at \/ m.kind = "node", "embedded_interpreter")
    \cup When(m.kind = "customize", "startup_customize")

\* _scan_text
TextFindings(has) ==
    When("credential" \in has, "credential_reference")
    \cup When("network" \in has, "network_reference")
    \cup When("blob" \in has, "obfuscation_signal")

\* _scan_pth
PthFindings(m) == When("import" \in m.has, "pth_exec")

\* _scan_python; what does not parse is not looked into.
PythonFindings(m) ==
    When(m.kind = "init" /\ m.has \cap {"network", "subprocess", "credential"} # {},
         "init_sensitive_behaviour")
    \cup When("call" \in m.has /\ "malformed" \notin m.has, "top_level_sensitive_call")

\* _scan_javascript
JavascriptFindings(m) ==
    When("spawn" \in m.has /\ (m.kind = "index" \/ "src" \notin m.at), "top_level_sensitive_js")

\* Sizes are in units of 1 MiB, rounded up: text over 2 of them is not read,
\* over 5 it is a finding.
ReadLimit == 2
BlobLimit == 5

\* Of text, the extensions that count as too large.
Measured == Python \cup {"index", "js", "package", "txt"}

SizeFindings(m) == When(m.size > BlobLimit /\ m.kind \in Measured, "large_text_blob")

BodyFindings(m) ==
    IF m.kind \notin Text \/ m.size > ReadLimit THEN {}
    ELSE IF "unreadable" \in m.has THEN {"member_read_error"}
    ELSE TextFindings(m.has)
         \cup (CASE m.kind = "pth" -> PthFindings(m)
                [] m.kind \in Python -> PythonFindings(m)
                [] m.kind \in Javascript -> JavascriptFindings(m)
                [] OTHER -> {})

\* _scan_npm_package_json: the lifecycle scripts are read whatever the size.
PackageFindings(m) == When("lifecycle" \in m.has, "lifecycle_script")

\* _scan_archive_member: what cannot be read as a package.json is left at that.
MemberFindings(m, ecosystem) ==
    IF ecosystem = "npm" /\ m.kind = "package"
    THEN IF m.has \cap {"malformed", "unreadable"} # {} THEN {"package_json_parse_error"}
         ELSE PackageFindings(m) \cup SizeFindings(m) \cup BodyFindings(m)
    ELSE SizeFindings(m) \cup BodyFindings(m)

\* Whether the reader chosen for the name can parse the bytes.
Opens(content, form) ==
    /\ content.whole
    /\ content.format = IF form \in {"whl", "zip"} THEN "zip" ELSE "tar"

\* _validate_record: what RECORD does not list, it says nothing of.
RecordFindings(content) ==
    When(content.record = "missing", "record_missing")
    \cup When(content.record = "mismatch", "record_hash_mismatch")

\* _scan_archive and _scan_zip
ArchiveFindings(content, form, ecosystem) ==
    IF ~Opens(content, form) THEN {"bad_archive"}
    ELSE (UNION {NameFindings(m) \cup MemberFindings(m, ecosystem) : m \in content.members})
         \cup (IF form = "whl" THEN RecordFindings(content) ELSE {})

\* _scan_oci_bundle
BundleFindings(content) ==
    IF content.format # "json" \/ ~content.whole THEN {"bundle_parse_error"}
    ELSE When("root" \in content.image, "runs_as_root")
         \cup When("secret" \in content.image, "secret_like_env")
         \cup When("shell" \in content.image, "shell_entrypoint")
         \cup When("network" \in content.image, "history_network")

\* _scan_plain_file
PlainFindings(content, form) ==
    When(form = "native", "native_code")
    \cup (IF form = "text" /\ content.size <= ReadLimit THEN TextFindings(content.has) ELSE {})

\* Faulty: other names are left without an ecosystem of theirs.
GuessNamed(form) ==
    CASE form = "whl" -> "pypi"
      [] form = "tgz" -> "npm"
      [] form = "oci.json" -> "oci"
      [] OTHER -> "unknown"

\* _guess_ecosystem, for the legacy route: a name is all it has.
Guess(form) ==
    CASE form = "whl" -> "pypi"
      [] form = "tgz" -> "npm"
      [] form = "oci.json" -> "oci"
      [] OTHER -> "generic"

\* What nothing catches: tarfile's EOFError for a tar that is cut short; what
\* zipfile and base64 raise for a broken RECORD, unless it is BadZipFile; the
\* AttributeErrors of a document that is not what it should be.
Raises(content, form, ecosystem) ==
    \/ /\ form \in {"tar.gz", "tgz", "tar"} /\ ecosystem # "oci"
       /\ content.format = "tar" /\ ~content.whole
    \/ /\ form = "whl" /\ ecosystem # "oci"
       /\ Opens(content, form) /\ content.record = "broken"
    \/ /\ ecosystem = "oci" \/ form = "oci.json"
       /\ content.format = "json" /\ content.whole /\ "odd" \in content.image

Findings(content, form, ecosystem) ==
    CASE ecosystem = "oci" \/ form = "oci.json" -> BundleFindings(content)
      [] ecosystem # "oci" /\ form \in Archives \cup {"whl"} -> ArchiveFindings(content, form, ecosystem)
      [] OTHER -> PlainFindings(content, form)

Highest(rules) ==
    IF rules = {} THEN 0
    ELSE CHOOSE s \in 0 .. 4 : /\ \E r \in rules : SeverityOf[r] = s
                              /\ \A r \in rules : SeverityOf[r] <= s

\* scan: requirements and modules are those of a wheel that opens; mutable is
\* that of the request, for an image.
Scan(content, form, ecosystem, mutable) ==
    LET rules == Findings(content, form, ecosystem)
        wheel == ecosystem # "oci" /\ form = "whl" /\ Opens(content, form)
    IN  [ecosystem |-> ecosystem, form |-> form,
         severity |-> Highest(rules),
         caps |-> {CapabilityOf[r] : r \in rules \cap DOMAIN CapabilityOf},
         requires |-> IF wheel THEN content.requires ELSE {},
         modules |-> IF wheel THEN content.modules ELSE <<>>,
         mutable |-> mutable /\ ecosystem = "oci"]

=============================================================================
