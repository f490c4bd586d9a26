---------------------------- MODULE MCActionGate ----------------------------
(* Instances of ActionGate: two contracts of one directory name, one without *)
(* a manifest, and some whose configuration files ask for other formats.     *)
EXTENDS ActionGate

Known(dir, name) == [dir |-> dir, name |-> name, manifest |-> TRUE, asks |-> "action"]

Pool == Known("contracts/pool", "pool")
OldPool == Known("legacy/pool", "pool")
Vault == Known("contracts/vault", "vault")
Missing == [Known("contracts/none", "none") EXCEPT !.manifest = FALSE]
Silent == [Known("contracts/quiet", "quiet") EXCEPT !.asks = "none"]
Raw == [Known("contracts/raw", "raw") EXCEPT !.asks = "raw-json"]

MCLists == {<<Pool>>, <<Pool, Vault>>, <<Pool, Missing, OldPool>>, <<Silent, Vault>>, <<Raw, Vault>>}

Count(severities) == [s \in Severities |-> IF s \in severities THEN 1 ELSE 0]

Report(failed, severities) == [failed |-> failed, count |-> Count(severities)]

SomeReports == {Report(FALSE, {}), Report(TRUE, {}), Report(FALSE, {"critical"}),
                Report(FALSE, {"medium"}), Report(FALSE, {"minor"}), Report(FALSE, {"enhancement"})}

MCOutcomes == [ok : BOOLEAN, wrote : BOOLEAN, report : SomeReports]

Empty == [n \in {} |-> 0]

MCLeftovers == {Empty, [n \in {"pool", "quiet"} |-> [format |-> "json", report |-> Report(TRUE, {"critical"})]]}

=============================================================================
