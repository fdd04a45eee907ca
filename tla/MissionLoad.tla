---------------------------- MODULE MissionLoad ----------------------------
(***************************************************************************)
(* MissionModelLoader: from the files of a workspace to a Mission Model or *)
(* to the diagnostics of the first stage that has any: the directory, then *)
(* the files and their top-level keys, then the types, then the ids.       *)
(*                                                                         *)
(* A workspace is [is_dir, files, typed, twice, text]: whether there is a  *)
(* directory, what is found in each file, whether the values have the types*)
(* of the Mission Model, the ids <<domain, id>> that a list declares twice,*)
(* and the model that the text of the files, each of them read, stands for.*)
(***************************************************************************)
EXTENDS MissionModel

REQUIRED_FILES == {"spacecraft.yaml", "subsystems.yaml", "modes.yaml", "telemetry.yaml",
                   "commands.yaml", "events.yaml", "faults.yaml", "packets.yaml",
                   "policies.yaml"}
OPTIONAL_FILES == {"payloads.yaml", "data_products.yaml", "contacts.yaml",
                   "commandability.yaml"}
ModelFiles == REQUIRED_FILES \cup OPTIONAL_FILES

\* The id tables of each file; mode_transitions and the policies carry no ids.
TablesOf(file) ==
  CASE file = "contacts.yaml" -> {"contact_profiles", "link_profiles", "contact_windows",
                                  "downlink_flows"}
    [] file = "commandability.yaml" -> {"command_sources", "commandability_rules",
                                        "autonomous_actions", "recovery_intents"}
    [] file = "payloads.yaml" -> {"payloads"}
    [] file = "data_products.yaml" -> {"data_products"}
    [] file = "subsystems.yaml" -> {"subsystems"}
    [] file = "modes.yaml" -> {"modes"}
    [] file = "telemetry.yaml" -> {"telemetry"}
    [] file = "commands.yaml" -> {"commands"}
    [] file = "events.yaml" -> {"events"}
    [] file = "faults.yaml" -> {"faults"}
    [] file = "packets.yaml" -> {"packets"}
    [] OTHER -> {}
Tables == UNION {TablesOf(file) : file \in ModelFiles}

\* keys_wrong: one top-level key is missing and another is unknown.
FileState == {"absent", "bad_yaml", "empty", "not_mapping", "key_missing", "key_unknown",
              "keys_wrong", "read"}

IsWorkspace(ws) ==
  /\ ws.is_dir \in BOOLEAN /\ ws.typed \in BOOLEAN
  /\ ws.files \in [ModelFiles -> FileState]
  /\ ws.twice \subseteq ((Tables \ {"modes"}) \X Ids)   \* the modes are a mapping
  /\ IsModel(ws.text) /\ Tables \subseteq DOMAIN ws.text
  /\ \A d \in ws.twice : d[2] \in Declared(ws.text, d[1])

Diagnostic(code, subject) == [code |-> code, subject |-> subject]

\* What reading one file and checking its keys appends to the diagnostics.
FileDiagnostics(ws, file) ==
  CASE ws.files[file] = "absent" -> IF file \in REQUIRED_FILES
                                      THEN {Diagnostic("OF-SYN-002", file)} ELSE {}
    [] ws.files[file] = "bad_yaml" -> {Diagnostic("OF-SYN-003", file)}
    [] ws.files[file] = "empty" -> {Diagnostic("OF-SYN-004", file)}
    [] ws.files[file] = "not_mapping" -> {Diagnostic("OF-SYN-005", file)}
    [] ws.files[file] = "key_missing" -> {Diagnostic("OF-STR-001", file)}
    [] ws.files[file] = "key_unknown" -> {Diagnostic("OF-STR-002", file)}
    [] ws.files[file] = "keys_wrong" -> {Diagnostic("OF-STR-001", file),
                                         Diagnostic("OF-STR-002", file)}
    [] OTHER -> {}

check_duplicate_ids(ws) == {Diagnostic("OF-ID-001", d) : d \in ws.twice}

\* What the loader sees of a list in an optional file that is not there: its default, [].
Loaded(ws) ==
  [d \in DOMAIN ws.text |->
     IF \E file \in OPTIONAL_FILES : ws.files[file] = "absent" /\ d \in TablesOf(file)
       THEN <<>> ELSE ws.text[d]]

LoadDiagnostics(ws) ==
  LET read == UNION {FileDiagnostics(ws, file) : file \in ModelFiles}
      ids == {d \in check_duplicate_ids(ws) :
                \A file \in ModelFiles : d.subject[1] \in TablesOf(file) => ws.files[file] = "read"}
  IN  CASE ~ws.is_dir -> {Diagnostic("OF-SYN-001", "mission")}
        [] ws.is_dir /\ read # {} -> read
        [] ws.is_dir /\ read = {} /\ ~ws.typed -> {Diagnostic("OF-STR-003", "mission")}
        [] OTHER -> ids

LoadFails(ws) == LoadDiagnostics(ws) # {}

=============================================================================
