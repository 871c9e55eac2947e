----------------------------- MODULE DataPolicy -----------------------------
(***************************************************************************)
(* Field policies and what they govern (internal/platform/security/        *)
(* datapolicy/policy.go and export.go, internal/platform/security/masking, *)
(* internal/app/datapolicy and its repository): policies are stored one by *)
(* one, an export reads the catalog of its organization in one query and   *)
(* renders with that copy, and evidence of a deletion names the fields.    *)
(*                                                                         *)
(* A cell of an export is modelled by how much of its value is hidden; a   *)
(* value by its length and the place of its first "@".                     *)
(***************************************************************************)
EXTENDS Integers, FiniteSets

CONSTANTS DpOrgs,        \* organizations
          DpKeys,        \* field keys, without surrounding space
          DpExports,     \* calls of RenderExport, each made once
          DpProofs,      \* calls of RecordDeletionEvidence, each made once
          DpRetentions,  \* what retention_days is set to
          DpLimits,      \* what MaxRows is set to
          DefaultRows,   \* DefaultExportMaxRows
          MaximumRows,   \* MaximumExportMaxRows
          MaxLength      \* bound: the longest value of a cell

DataPolicyAssumption ==
  /\ DpRetentions \subseteq Int /\ DpLimits \subseteq Int /\ MaxLength \in Nat
  /\ DefaultRows \in Nat /\ MaximumRows \in Nat

Classifications ==
  {"public", "internal", "confidential", "restricted", "personal_information", "important_data"}
MaskStrategies == {"none", "stars", "mobile", "id_card", "bank_card", "email", "name"}
Sensitive == {"personal_information", "restricted"}

(* What a request may ask for: any classification and mask, and texts that *)
(* may be missing.                                                         *)
FieldPolicies ==
  [described : BOOLEAN, class : Classifications \cup {"unknown"}, mask : MaskStrategies \cup {"", "unknown"},
   retention : DpRetentions, approval : BOOLEAN, watermark : BOOLEAN]

\* A value: its length, and the index of the first "@", or -1.
CellValues == {v \in [n : 0..MaxLength, at : -1..MaxLength] : v.at < v.n}

\* NewCatalog on one policy: refused or not, and what the catalog then holds.
PolicyValid(p) ==
  /\ p.described
  /\ p.retention > 0
  /\ p.class \in Classifications
  /\ p.class \in Sensitive => p.mask # "none"
  /\ p.mask \in MaskStrategies

Effective(p) ==
  [p EXCEPT !.approval = @ \/ p.class \in Sensitive, !.watermark = @ \/ p.class \in Sensitive]

(* MaskValue: how many characters of a value are not shown.  Mobile shows  *)
(* three and four of them, IDCard and BankCard four and four, Email the    *)
(* first and everything from the "@" on, Name the first.                   *)
Hidden(mask, v) ==
  CASE mask = "none"  -> 0
    [] mask = "stars" -> v.n
    [] mask = "mobile" -> IF v.n < 7 THEN v.n ELSE v.n - 7
    [] mask \in {"id_card", "bank_card"} -> IF v.n < 8 THEN v.n ELSE v.n - 8
    [] mask = "email" -> IF v.at <= 1 THEN v.n ELSE v.at - 1
    [] mask = "name"  -> IF v.n <= 1 THEN v.n ELSE v.n - 1

VARIABLES
  dpStored,    \* dpStored[o]: the rows of data_field_policies, by key
  dpPc,        \* dpPc[x]: where the export is: new, read or done
  dpAsk,       \* dpAsk[x]: what it asks for
  dpCatalog,   \* dpCatalog[x]: the catalog it has read
  dpStale,     \* history: dpStale[x], the keys stored again since it read
  dpRendered,  \* the artifacts
  dpEvidence,  \* rows of data_deletion_evidence
  dpEver       \* history: every policy that was ever stored, with its place

exportVars == <<dpPc, dpAsk, dpCatalog, dpStale>>
dpVars == <<dpStored, exportVars, dpRendered, dpEvidence, dpEver>>

\* ExportOptions: the fields, and whether an approval, a purpose and a watermark are given.
ExportOptions ==
  [org : DpOrgs, keys : SUBSET DpKeys, approval : BOOLEAN, purpose : BOOLEAN, watermark : BOOLEAN, limit : DpLimits]

DpInit ==
  /\ dpStored = [o \in DpOrgs |-> <<>>]
  /\ dpPc = [x \in DpExports |-> "new"] /\ dpAsk \in [DpExports -> ExportOptions]
  /\ dpCatalog = [x \in DpExports |-> <<>>] /\ dpStale = [x \in DpExports |-> {}]
  /\ dpRendered = {} /\ dpEvidence = {} /\ dpEver = {}

(* UpsertDataFieldPolicy: Validate before the transaction and again in     *)
(* Upsert, then one row is updated or inserted.  What is stored is the     *)
(* policy as asked for; the stricter flags are added when it is read.      *)
Upsert(o, k, p) ==
  /\ PolicyValid(p)
  /\ dpStored' = [dpStored EXCEPT ![o] =
                    [j \in DOMAIN dpStored[o] \cup {k} |-> IF j = k THEN p ELSE dpStored[o][j]]]
  /\ dpStale' = [x \in DpExports |-> IF dpAsk[x].org = o THEN dpStale[x] \cup {k} ELSE dpStale[x]]
  /\ dpEver' = dpEver \cup {<<o, k, p>>}
  /\ UNCHANGED <<dpPc, dpAsk, dpCatalog, dpRendered, dpEvidence>>

\* catalog: one query, and NewCatalog refuses the whole organization for one bad row.
ReadCatalog(x) ==
  LET o == dpAsk[x].org IN
  /\ dpPc[x] = "new"
  /\ \A k \in DOMAIN dpStored[o] : PolicyValid(dpStored[o][k])
  /\ dpPc' = [dpPc EXCEPT ![x] = "read"]
  /\ dpCatalog' = [dpCatalog EXCEPT ![x] = [k \in DOMAIN dpStored[o] |-> Effective(dpStored[o][k])]]
  /\ dpStale' = [dpStale EXCEPT ![x] = {}]
  /\ UNCHANGED <<dpAsk, dpStored, dpRendered, dpEvidence, dpEver>>

\* AuthorizeExport on the copy.
AuthorizeExport(catalog, e) ==
  /\ e.purpose
  /\ \A k \in e.keys :
       /\ k \in DOMAIN catalog
       /\ catalog[k].approval => e.approval
       /\ catalog[k].watermark => e.watermark

MaxRowsOf(e) == IF e.limit = 0 THEN DefaultRows ELSE e.limit

\* RenderExport: every cell goes through the mask of its field.
RenderExport(x, rows, cell) ==
  LET e == dpAsk[x] c == dpCatalog[x] IN
  /\ dpPc[x] = "read"
  /\ e.keys # {}
  /\ MaxRowsOf(e) >= 1 /\ MaxRowsOf(e) <= MaximumRows /\ rows <= MaxRowsOf(e)
  /\ AuthorizeExport(c, e)
  /\ dpRendered' = dpRendered \cup
       {[ask |-> e, rows |-> rows, cell |-> cell, stale |-> dpStale[x], stored |-> dpStored[e.org],
         policy |-> [k \in e.keys |-> c[k]], hidden |-> [k \in e.keys |-> Hidden(c[k].mask, cell[k])]]}
  /\ dpPc' = [dpPc EXCEPT ![x] = "done"]
  /\ UNCHANGED <<dpAsk, dpCatalog, dpStale, dpStored, dpEvidence, dpEver>>

RefuseExport(x) ==
  /\ dpPc[x] # "done"
  /\ dpPc' = [dpPc EXCEPT ![x] = "done"]
  /\ UNCHANGED <<dpAsk, dpCatalog, dpStale, dpStored, dpRendered, dpEvidence, dpEver>>

(* RecordDeletionEvidence: the fields must be registered; the row carries  *)
(* an identity of its own, so evidence is only ever added.                 *)
RecordDeletionEvidence(i, o, keys) ==
  /\ keys # {} /\ keys \subseteq DOMAIN dpStored[o]
  /\ \A k \in DOMAIN dpStored[o] : PolicyValid(dpStored[o][k])
  /\ \A e \in dpEvidence : e.id # i
  /\ dpEvidence' = dpEvidence \cup {[id |-> i, org |-> o, keys |-> keys]}
  /\ UNCHANGED <<dpStored, exportVars, dpRendered, dpEver>>

DpNext ==
  \/ \E o \in DpOrgs, k \in DpKeys, p \in FieldPolicies : Upsert(o, k, p)
  \/ \E x \in DpExports :
       \/ ReadCatalog(x)
       \/ \E rows \in 0..MaximumRows, cell \in [DpKeys -> CellValues] : RenderExport(x, rows, cell)
       \/ RefuseExport(x)
  \/ \E i \in DpProofs, o \in DpOrgs, keys \in SUBSET DpKeys : RecordDeletionEvidence(i, o, keys)

DpSpec == DpInit /\ [][DpNext]_dpVars

-----------------------------------------------------------------------------
(* PROPERTIES *)

(* The catalog of an organization can always be built: no policy that      *)
(* Upsert has accepted makes NewCatalog refuse all exports and all         *)
(* evidence of the organization.                                           *)
CatalogLoads == \A o \in DpOrgs : \A k \in DOMAIN dpStored[o] : PolicyValid(dpStored[o][k])

(* Personal and restricted fields leave only under an approval and with a  *)
(* watermark, and something of every value is hidden, except in values of  *)
(* exactly seven characters under "mobile" and exactly eight under         *)
(* "id_card" and "bank_card", which masking shows completely.              *)
ShownWhole(mask, v) ==
  v.n = 0 \/ (mask = "mobile" /\ v.n = 7) \/ (mask \in {"id_card", "bank_card"} /\ v.n = 8)

SensitiveIsGoverned ==
  \A r \in dpRendered : \A k \in r.ask.keys :
    r.policy[k].class \in Sensitive =>
      /\ r.ask.approval /\ r.ask.watermark
      /\ ~ShownWhole(r.policy[k].mask, r.cell[k]) => r.hidden[k] > 0

(* An export follows the policies that are in force when it is rendered,   *)
(* unless one of its fields was changed after it had read the catalog.     *)
FollowsCurrentPolicy ==
  \A r \in dpRendered : \A k \in r.ask.keys \ r.stale :
    k \in DOMAIN r.stored /\ r.policy[k] = Effective(r.stored[k])

(* Evidence is never changed or removed, and names only fields that were   *)
(* registered in its organization.                                         *)
EvidenceIsFounded ==
  \A e \in dpEvidence : \A k \in e.keys : \E t \in dpEver : t[1] = e.org /\ t[2] = k

EvidenceIsKept == [][dpEvidence \subseteq dpEvidence']_dpVars

=============================================================================
