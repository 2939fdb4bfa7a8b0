---------------------------- MODULE MCCsdKernel ----------------------------
(***************************************************************************)
(* A catalogue of evidence and bases for the runs of CsdKernel: evidence   *)
(* with a deadline, with a profile and with neither; bases that share a    *)
(* member; two bases of one claim; opposite claims.                        *)
(***************************************************************************)
EXTENDS CsdKernel

CONSTANTS Timed, Scoped, Plain,         \* evidence
          Wired, Passing, Failing,      \* bases
          Upstream, Platform,           \* dependencies
          Soc                           \* a profile

CatalogueDependsOn == [e \in EvidenceIds |->
    IF e = Timed THEN {Upstream} ELSE IF e = Scoped THEN {Upstream, Platform} ELSE {Platform}]
CatalogueExpiresAt == [e \in EvidenceIds |-> IF e = Timed THEN 2 ELSE None]
CatalogueMadeFor == [e \in EvidenceIds |->
    IF e = Scoped THEN [id |-> Soc, ver |-> 1] ELSE None]
CatalogueKind == [b \in BasisIds |-> IF b = Wired THEN "source" ELSE "verdict"]
CatalogueSays == [b \in BasisIds |->
    IF b = Wired THEN "connected" ELSE IF b = Failing THEN "fail" ELSE "pass"]
CatalogueMembers == [b \in BasisIds |->
    IF b = Wired THEN {Timed} ELSE IF b = Failing THEN {Timed, Scoped} ELSE {Scoped}]
=============================================================================
