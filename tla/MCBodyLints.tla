---------------------------- MODULE MCBodyLints ----------------------------
(* Every body of a few constructs, for each detector: as many as the longest  *)
(* mistake about it needs; and the functions of the test cases.              *)
EXTENDS TestContracts, TLC

CONSTANTS x, y          \* model values: locals

MCLengths ==
  [l \in Lints |->
     CASE l \in {"integer-overflow-or-underflow", "unscoped-authorize-as-current-contract",
                 "unsafe-map-get", "unchecked-cross-contract-result", "dynamic-storage"}
              \cup KeyLints -> 1
       [] l = "unsafe-unwrap of arithmetic" -> 2
       [] l \in {"unsafe-lossy-cast", "dos-unbounded-operation", "contract-import-dependency",
                 "token-interface-inference"} -> 3
       [] l \in {"linear-scan-in-loop", "clone-in-loop", "iterators-over-indexing",
                 "ineffective-extend-ttl", "excessive-token-approval",
                 "unrestricted-transfer-from"} -> 4
       [] l \in {"divide-before-multiply", "avoid-panic-error"} -> 6
       [] l \in DOMAIN Questions -> 9
       [] OTHER -> 5]

MCLints == {"division-by-zero", "unsafe-unwrap", "unsafe-unwrap of arithmetic",
            "unsafe-lossy-cast", "dos-unbounded-operation", "non-terminating-loop",
            "clone-in-loop", "linear-scan-in-loop", "iterators-over-indexing",
            "integer-overflow-or-underflow", "ineffective-extend-ttl",
            "unscoped-authorize-as-current-contract", "front-running",
            "unrestricted-transfer-from", "divide-before-multiply", "excessive-token-approval",
            "unused-return-enum", "unsafe-map-get", "unchecked-cross-contract-result",
            "dynamic-storage", "vec-could-be-mapping", "avoid-panic-error",
            "contract-import-dependency", "token-interface-inference"}
           \cup MacroLints \cup KeyLints \cup DOMAIN Questions

MCContracts == [l \in Lints |-> {c.body : c \in Cases[l]}]

MCSymmetry == Permutations(Locals)

MCNumbers == 0 .. 2
=============================================================================
