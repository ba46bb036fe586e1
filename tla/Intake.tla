-------------------------------- MODULE Intake --------------------------------
(***************************************************************************)
(* What reaches ingest.Engine.Apply: the requests of REST callers and the  *)
(* bus messages of detect, monitor and discover, which the consumers turn  *)
(* into batches, and the checks a batch passes before its transaction.     *)
(* "none" stands for an absent field.                                      *)
(***************************************************************************)
EXTENDS Lifecycle, FiniteSets

AssetKinds == {"domain", "subdomain", "ip", "netblock", "cert",
               "cloud_resource"}
AssetStatuses == {"active", "candidate", "expired", "quarantined"}
OffensiveModules == {"detect", "ai-redteam", "ddos-sim"}
FindingModules == OffensiveModules \cup {"phish-catcher"}

\* No batch: the message is acknowledged or terminated without a write.
Dropped == [key |-> "none"]

AssetIn(type, value, status) == [type |-> type, value |-> value, status |-> status]

\* SingleActiveTenant.
SingleTenant(tenants) ==
    IF Cardinality(tenants) = 1 THEN CHOOSE t \in tenants : TRUE ELSE "none"

\* FindAssetByValue: the row of any tenant, active ones first.
FindAsset(assets, value) ==
    LET rows == {k \in DOMAIN assets : k[2] = value}
        rank(k) == CASE assets[k].status = "active" -> 0
                     [] assets[k].status = "candidate" -> 1
                     [] OTHER -> 2
    IN  {k \in rows : \A j \in rows : rank(k) <= rank(j)}

\* resolveTenantByAsset: the owner of the row, else the only tenant; the type
\* is the row's, else the one the reference names, which "host" does not.
Resolved(assets, tenants, m) ==
    LET rows == FindAsset(assets, m.asset)
    IN  IF rows # {}
        THEN LET k == CHOOSE k \in rows : TRUE
             IN  <<k[1], assets[k].type>>
        ELSE <<SingleTenant(tenants), IF m.kind = "host" THEN "none" ELSE m.kind>>

\* handleDetectFinding: one finding and its asset.
FromDetect(assets, tenants, m) ==
    LET r == Resolved(assets, tenants, m)
    IN  IF r[1] = "none" THEN Dropped
        ELSE [key |-> <<"detect.findings", m.event>>, tenant |-> r[1],
              claimed |-> "none", risk |-> "none", token |-> {},
              assets |-> <<AssetIn(r[2], m.asset, "none")>>,
              findings |-> <<[fp |-> m.fp, asset |-> m.asset, module |-> "detect",
                              state |-> mapFindingStatus(m.status), hold |-> FALSE,
                              evidence |-> m.evidence]>>]

\* handleMonitorAsset: excluded candidates are not stored, those outside the
\* scope are quarantined.
FromMonitor(tenants, m) ==
    IF m.match = "excluded" \/ SingleTenant(tenants) = "none" THEN Dropped
    ELSE [key |-> <<"monitor.assets.new", m.event>>, tenant |-> SingleTenant(tenants),
          claimed |-> "none", risk |-> "none", token |-> {},
          assets |-> <<AssetIn(m.kind, m.asset,
                               IF m.match = "out" THEN "quarantined"
                                                  ELSE "candidate")>>,
          findings |-> <<>>]

\* handleDiscoverAsset: an event without an id is keyed by its asset.
FromDiscover(tenants, m) ==
    LET t == IF m.tenant # "none" THEN m.tenant ELSE SingleTenant(tenants)
    IN  IF t \notin tenants THEN Dropped
        ELSE [key |-> IF m.event = "none"
                      THEN <<"hub.discover.asset.changed", t, m.kind, m.asset>>
                      ELSE <<"hub.discover.asset.changed", m.event>>,
              tenant |-> t, claimed |-> "none", risk |-> "none", token |-> {},
              assets |-> <<AssetIn(m.kind, m.asset,
                                   CASE m.change = "expired" -> "expired"
                                     [] m.change \in {"new", "reactivated"} -> "active"
                                     [] m.change = "attribute_changed" -> "none")>>,
              findings |-> <<>>]

\* handleIngestBatch: the body as it is, the tenant from the credential.
FromRest(m) ==
    [key |-> <<m.key>>, tenant |-> m.tenant, claimed |-> m.claimed, risk |-> m.risk,
     token |-> m.token, assets |-> m.assets, findings |-> m.findings]

BatchOf(assets, tenants, m) ==
    CASE m.via = "detect" -> FromDetect(assets, tenants, m)
      [] m.via = "monitor" -> FromMonitor(tenants, m)
      [] m.via = "discover" -> FromDiscover(tenants, m)
      [] m.via = "rest" -> FromRest(m)

-----------------------------------------------------------------------------
validate(b) ==
    /\ b.key # "none"
    /\ b.assets # <<>> \/ b.findings # <<>>
    /\ b.risk \in {"none", "R0", "R1", "R2", "R3"}
    /\ \A n \in DOMAIN b.assets :
          /\ b.assets[n].type \in AssetKinds
          /\ b.assets[n].status \in AssetStatuses \cup {"none"}
    /\ \A n \in DOMAIN b.findings :
          /\ b.findings[n].module \in FindingModules
          /\ b.findings[n].asset # "none"
          /\ b.findings[n].state \in All \cup {"none"}

bindTenant(b) == b.claimed \in {"none", b.tenant}

\* Who must present a scope token, and what it must cover.
TokenRequired(b) ==
    \/ b.risk \in {"R1", "R2", "R3"}
    \/ \E n \in DOMAIN b.findings : b.findings[n].module \in OffensiveModules
Touched(b) == {b.assets[n].value : n \in DOMAIN b.assets}
              \cup {b.findings[n].asset : n \in DOMAIN b.findings}

\* reverify; a token is the set of targets of its manifest, {} is none.  Keys
\* and manifests are fetched, which may fail for a while.
reverify(b) ==
    CASE b.token = {} /\ ~TokenRequired(b) -> {TRUE}
      [] b.token # {} /\ Touched(b) \subseteq b.token -> BOOLEAN
      [] OTHER -> {FALSE}

\* The verdicts of the checks before the transaction; bus batches carry no
\* token and are not asked for one.
Admitted(via, b) ==
    IF ~validate(b) \/ ~bindTenant(b) THEN {FALSE}
    ELSE IF via # "rest" THEN {TRUE} ELSE reverify(b)
=============================================================================
