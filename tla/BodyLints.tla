----------------------------- MODULE BodyLints -----------------------------
(* The detectors that look at one function, or at the constructs of one crate *)
(* in turn, each started with the memory that its check_fn or check_crate    *)
(* makes and stepped by its own visitor.                                     *)
EXTENDS GuardLints, ConstantLints, LoopLints, DivisionLints, CallLints, CrateLints

Start == CASE lint = "division-by-zero" -> DivisionStart
           [] lint = "unsafe-unwrap" -> UnwrapStart
           [] lint \in {"unsafe-lossy-cast", "dos-unbounded-operation"} -> ConstantStart
           [] lint = "unsafe-unwrap of arithmetic" -> ArithmeticStart
           [] lint \in DOMAIN Looked -> LoopStart
           [] lint \in {"ineffective-extend-ttl", "excessive-token-approval"} -> TtlStart
           [] lint = "front-running" -> FrontStart
           [] lint = "unrestricted-transfer-from" -> TransferStart
           [] lint = "unused-return-enum" -> EnumStart
           [] lint \in MacroLints -> MacroStart
           [] lint = "avoid-panic-error" -> PanicStart
           [] lint = "contract-import-dependency" -> ImportStart
           [] lint = "token-interface-inference" -> TokenStart
           [] OTHER -> Nothing

Init == Begin(Start)

Next == \/ VisitDivision \/ VisitUnwrap \/ VisitConstant \/ VisitArithmetic
        \/ VisitLoops \/ VisitOverflow \/ VisitTtl \/ VisitAuthorize
        \/ VisitFront \/ VisitTransfer \/ VisitProducts \/ VisitApproval
        \/ VisitEnum \/ VisitMap \/ VisitCalls \/ VisitKey \/ VisitValue \/ VisitVec
        \/ VisitSource \/ CheckNext \/ VisitImports \/ VisitManifest \/ VisitToken

Spec == Init /\ [][Next]_walk

\* Values are judged by what they can be: an expression that is passed over cannot
\* fail, and a product of quotients is reported when a quotient comes first, but for
\* the exceptions named there.
ValuesJudged == ExpressionsJudged /\ ProductsJudged
=============================================================================
