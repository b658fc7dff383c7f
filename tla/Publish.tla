------------------------------- MODULE Publish -------------------------------
(***************************************************************************)
(* What makes a generated website public: the objects of a version in R2,  *)
(* its rows in the shard, the site row of the control plane and one KV     *)
(* entry per host.  publishVersion() writes them in that order and flips   *)
(* the KV entries last; the renderer reads the KV entry and the objects,   *)
(* and nothing else.                                                       *)
(*                                                                         *)
(* Abstracted: a version has one page and its root document, one sitemap;  *)
(* what a page says; the index states no renderer tells from noindex.  A   *)
(* lastmod is the number of the attempt that first saw the page as it is.  *)
(***************************************************************************)
EXTENDS Naturals, Sequences, FiniteSets

CONSTANTS
  Null,
  Hosts    \* the hosts of the site, as a sequence: hostsFor()

ASSUME HostsAssumption ==
  /\ Hosts \in Seq(STRING)
  /\ Hosts # <<>>

VARIABLES
  rows,     \* shard: the site_versions rows of the site, by version number
  objects,  \* R2: pairs <<version, object>>
  sitemap,  \* R2: the lastmod the sitemap of a version gives, 0 where it has none
  site,     \* control plane: published version (0: none) and index state
  routing   \* KV: the manifest of a host, or Null

publishVars == <<rows, objects, sitemap, site, routing>>

Host == {Hosts[i] : i \in DOMAIN Hosts}
Rendered == {"page", "root"}
Objects == Rendered \cup {"sitedoc"}
IndexStates == {"noindex", "gone"}

Manifests(versions) == [live : versions, index : IndexStates]

ASSUME NoManifestAssumption == Null \notin Manifests(Nat)

PublishTypeOK ==
  /\ rows \in Seq([pages : Nat, sealed : BOOLEAN])
  /\ objects \subseteq (DOMAIN rows) \X Objects
  /\ sitemap \in [DOMAIN rows -> Nat]
  /\ site \in [published : {0} \cup DOMAIN rows, index : IndexStates]
  /\ routing \in [Host -> Manifests(DOMAIN rows) \cup {Null}]

PublishInit ==
  /\ rows = <<>>
  /\ objects = {}
  /\ sitemap = <<>>
  /\ site = [published |-> 0, index |-> "noindex"]
  /\ routing = [h \in Host |-> Null]

----------------------------------------------------------------------------
\* getNextVersionNo() and insertSiteVersion(): a row with no pages, unsealed.
InsertSiteVersion ==
  /\ rows' = Append(rows, [pages |-> 0, sealed |-> FALSE])
  /\ sitemap' = Append(sitemap, 0)
  /\ UNCHANGED <<objects, site, routing>>

PutObject(v, object) ==
  /\ objects' = objects \cup {<<v, object>>}
  /\ UNCHANGED <<rows, sitemap, site, routing>>

\* decideLastmod() against the translations of the published version.
Lastmod(v, now) == IF site.published = v THEN rows[v].pages ELSE now

\* writeProjection(): the batch, unless this version already has pages; the
\* manifest and the seal are statements of their own.
WritePages(v, lastmod) ==
  /\ rows' = [rows EXCEPT ![v].pages = IF @ = 0 THEN lastmod ELSE @]
  /\ UNCHANGED <<objects, sitemap, site, routing>>

SealVersion(v) ==
  /\ rows' = [rows EXCEPT ![v].sealed = TRUE]
  /\ UNCHANGED <<objects, sitemap, site, routing>>

PutSitemap(v, lastmod) ==
  /\ sitemap' = [sitemap EXCEPT ![v] = lastmod]
  /\ UNCHANGED <<rows, objects, site, routing>>

\* blobExists() of every rendered key.
Verified(v) == \A object \in Rendered : <<v, object>> \in objects

SetPublishedVersion(v) ==
  /\ site' = [site EXCEPT !.published = v]
  /\ UNCHANGED <<rows, objects, sitemap, routing>>

\* The flip of one host, to a manifest whose index state was read earlier.
PutRoutingPointer(h, v, index) ==
  /\ routing' = [routing EXCEPT ![h] = [live |-> v, index |-> index]]
  /\ UNCHANGED <<rows, objects, sitemap, site>>

----------------------------------------------------------------------------
\* A dispute is opened or won: SQL_SET_INDEX_STATE, and nothing else.
SetIndexState(state) ==
  /\ site.index # state
  /\ site' = [site EXCEPT !.index = state]
  /\ UNCHANGED <<rows, objects, sitemap, routing>>

\* The renderer's answer for a page of host h, past the grace of a withdrawal.
Answer(h) ==
  IF routing[h] = Null \/ <<routing[h].live, "page">> \notin objects THEN "not found"
  ELSE IF routing[h].index = "gone" THEN "gone"
  ELSE "page"

----------------------------------------------------------------------------
\* All a visitor of host h can ask for is there, and the dashboard names it.
Whole(h) ==
  LET v == routing[h].live
  IN /\ \A object \in Objects : <<v, object>> \in objects
     /\ sitemap[v] # 0
     /\ rows[v].sealed /\ rows[v].pages # 0
     /\ site.published = v

(***************************************************************************)
(* LiveIsWhole: a host never points at half a site: whatever was retried   *)
(* or lost, the version a KV entry names is sealed, has all its objects    *)
(* and its sitemap, and is the one the control plane calls published       *)
(* (publishVersion() flips last, and never without verifying).             *)
(***************************************************************************)
LiveIsWhole == \A h \in Host : routing[h] # Null => Whole(h)

(***************************************************************************)
(* WithdrawnIsGone (refuted): "index_state = 'gone' makes the renderer     *)
(* answer 410" (apps/billing/src/webhook/handlers/risk.ts).  Only a        *)
(* publish writes the KV entry the renderer reads.                         *)
(***************************************************************************)
Withdrawn == site.index = "gone"
WithdrawnIsGone ==
  Withdrawn ~> (~ Withdrawn \/ \A h \in Host : Answer(h) # "page")
=============================================================================
