----------------------------- MODULE PackRelease -----------------------------
(* From a pack build to a published release (package_cpu.py create_pack,     *)
(* release.py, and the jobs of publish-ort-packs.yml that call them): one    *)
(* process per profile builds an archive with manifest, checksum and         *)
(* signature, splits it and signs a catalog; its files are uploaded to a     *)
(* draft; the index job checks the draft against the signed catalogs, signs  *)
(* an index and publishes.  Any process may die at any step and start again  *)
(* in the same directory, where a later build writes over an earlier one.    *)
(*                                                                           *)
(* A build is a number: an archive, and whatever is derived from it, is      *)
(* identified by the build it came from (digests do not collide, and a       *)
(* signature under the release key is not made by anybody else).             *)
EXTENDS Integers, FiniteSets

CONSTANTS
  Profiles,    \* cpu, cuda12, tensorrt10
  Blocks,      \* archive size, in read blocks
  PartBlocks,  \* part_bytes, in read blocks
  MaxBuilds,   \* bound: builds of one profile
  MaxDeaths    \* bound: processes that die

ReleaseAssumption ==
  /\ IsFiniteSet(Profiles) /\ Profiles # {} /\ "all" \notin Profiles
  /\ {Blocks, PartBlocks, MaxBuilds} \subseteq Nat \ {0} /\ MaxDeaths \in Nat

Builds == 1 .. MaxBuilds
Bad == -1         \* an archive whose bytes are not those of any build
None == 0
Files == {"archive", "manifest", "checksum", "signature"}
Contents == Builds \cup {None, Bad}

\* A file of the release output or an asset of the draft: a part is the blocks
\* first..last of its build's archive, a catalog lists the parts, and the rest
\* are copies.
Asset(kind, n, build, first, last) ==
  [kind |-> kind, n |-> n, build |-> build, first |-> first, last |-> last]
Name(a) == <<a.kind, a.n>>
Kinds == {"part", "manifest", "checksum", "signature", "catalog", "catalog_signature"}

VARIABLES
  matrix,     \* profiles to build; {} before validate-ref and when it refused
  publish,    \* whether they are published
  bpc,        \* per profile: idle, write, validate, manifest, checksum, sign, done
  build,      \* per profile: builds begun
  handoff,    \* per profile: the build each file in its directory is from
  ppc,        \* per profile: idle, split, copy, catalog, sign, consume, ready
  made,       \* per profile: whether the release output directory exists
  out,        \* per profile: the files in it
  inventory,  \* per profile and build: the assets its catalog lists
  draft,      \* per profile: assets of the draft
  listed,     \* per profile: whether upload was complete when the job ended
  index,      \* none, checked, written, signed, published, refused
  bound,      \* per profile: the catalog the index binds
  deaths

build_vars == <<bpc, build, handoff>>
prepare_vars == <<ppc, made, out, inventory>>
release_vars == <<draft, listed, index, bound>>
vars == <<matrix, publish, build_vars, prepare_vars, release_vars, deaths>>

Assets == [kind : Kinds, n : 0 .. Blocks, build : Builds, first : 0 .. Blocks, last : 0 .. Blocks]

TypeOK ==
  /\ matrix \subseteq Profiles /\ publish \in BOOLEAN
  /\ bpc \in [Profiles -> {"idle", "write", "validate", "manifest", "checksum", "sign", "done"}]
  /\ build \in [Profiles -> 0 .. MaxBuilds]
  /\ handoff \in [Profiles -> [Files -> Contents]]
  /\ ppc \in [Profiles -> {"idle", "split", "copy", "catalog", "sign", "consume", "ready"}]
  /\ made \in [Profiles -> BOOLEAN]
  /\ \A p \in Profiles : out[p] \subseteq Assets /\ draft[p] \subseteq Assets
  /\ \A p \in Profiles, b \in Builds : inventory[p][b] \subseteq Assets
  /\ listed \in [Profiles -> BOOLEAN]
  /\ index \in {"none", "checked", "written", "signed", "published", "refused"}
  /\ bound \in [Profiles -> Builds \cup {None}] /\ deaths \in 0 .. MaxDeaths

Init ==
  /\ matrix = {} /\ publish = FALSE
  /\ bpc = [p \in Profiles |-> "idle"] /\ build = [p \in Profiles |-> 0]
  /\ handoff = [p \in Profiles |-> [f \in Files |-> None]]
  /\ ppc = [p \in Profiles |-> "idle"] /\ made = [p \in Profiles |-> FALSE]
  /\ out = [p \in Profiles |-> {}] /\ inventory = [p \in Profiles |-> [b \in Builds |-> {}]]
  /\ draft = [p \in Profiles |-> {}] /\ listed = [p \in Profiles |-> FALSE]
  /\ index = "none" /\ bound = [p \in Profiles |-> None] /\ deaths = 0

-----------------------------------------------------------------------------
(* validate-ref *)

\* The workflow's inputs: a tag is odd when it is no stable pack tag and adapter
\* when it names another adapter version; kapsl is the requested version, where
\* same is the tag's (any version when there is no tag).
Refs ==
  [event : {"push", "dispatch"}, tag : {"none", "odd", "adapter", "exact"},
   kapsl : {"none", "same", "other", "malformed"}, requested : BOOLEAN,
   profile : Profiles \cup {"all"}]
RefPublishes(ref) == ref.event = "push" \/ ref.requested
RefAccepted(ref) ==
  /\ ref.event = "push" => ref.tag # "none"
  /\ ref.tag \notin {"odd", "adapter"}
  /\ ref.kapsl \in IF ref.tag = "exact" THEN {"none", "same"} ELSE {"same", "other"}
  /\ RefPublishes(ref) => ref.tag = "exact"

ValidateRef ==
  /\ matrix = {} /\ index = "none"
  /\ \E ref \in Refs :
       /\ RefAccepted(ref)
       /\ publish' = RefPublishes(ref)
       /\ matrix' = IF RefPublishes(ref) \/ ref.profile = "all" THEN Profiles ELSE {ref.profile}
  /\ UNCHANGED <<build_vars, prepare_vars, release_vars, deaths>>

-----------------------------------------------------------------------------
(* create_pack *)

BuildTo(p, next) == bpc' = [bpc EXCEPT ![p] = next]
Write(p, file, content) == handoff' = [handoff EXCEPT ![p][file] = content]

\* Entries are built and the archive is written beside its place.
StartBuild(p) ==
  /\ p \in matrix /\ bpc[p] = "idle" /\ ppc[p] = "idle" /\ ~listed[p]
  /\ build[p] < MaxBuilds
  /\ build' = [build EXCEPT ![p] = @ + 1]
  /\ BuildTo(p, "write")
  /\ UNCHANGED <<matrix, publish, handoff, prepare_vars, release_vars, deaths>>

\* write_archive ends with os.replace; what the disk holds may be damaged.
WriteArchive(p) ==
  /\ bpc[p] = "write"
  /\ \E content \in {build[p], Bad} : Write(p, "archive", content)
  /\ BuildTo(p, "validate")
  /\ UNCHANGED <<matrix, publish, build, prepare_vars, release_vars, deaths>>

\* validate_archive reads it back; a damaged one stays where it is.
ValidateArchive(p) ==
  /\ bpc[p] = "validate"
  /\ BuildTo(p, IF handoff[p]["archive"] = Bad THEN "idle" ELSE "manifest")
  /\ UNCHANGED <<matrix, publish, build, handoff, prepare_vars, release_vars, deaths>>

WriteManifest(p) ==
  /\ bpc[p] = "manifest"
  /\ Write(p, "manifest", build[p]) /\ BuildTo(p, "checksum")
  /\ UNCHANGED <<matrix, publish, build, prepare_vars, release_vars, deaths>>

WriteChecksum(p) ==
  /\ bpc[p] = "checksum"
  /\ Write(p, "checksum", handoff[p]["archive"]) /\ BuildTo(p, "sign")
  /\ UNCHANGED <<matrix, publish, build, prepare_vars, release_vars, deaths>>

\* sign_artifact refuses a key that is not the expected one; an unsigned build
\* removes the signature an earlier one left.
SignArchive(p) ==
  /\ bpc[p] = "sign"
  /\ \/ Write(p, "signature", handoff[p]["archive"]) /\ BuildTo(p, "done")
     \/ Write(p, "signature", None) /\ BuildTo(p, "done")
     \/ BuildTo(p, "idle") /\ UNCHANGED handoff
  /\ UNCHANGED <<matrix, publish, build, prepare_vars, release_vars, deaths>>

-----------------------------------------------------------------------------
(* prepare-profile *)

PrepareTo(p, next) == ppc' = [ppc EXCEPT ![p] = next]
Put(p, assets) == out' = [out EXCEPT ![p] = @ \cup assets]

\* What is read before the first part is written: the four files are there, the
\* checksum and the signature are the archive's, and the manifest is one of this
\* profile and version.  The directory may hold the work of several builds.
HandoffAccepted(p) ==
  /\ \A f \in Files : handoff[p][f] # None
  /\ handoff[p]["checksum"] = handoff[p]["archive"]
  /\ handoff[p]["signature"] = handoff[p]["archive"]

\* An output directory that exists is refused; a refused handoff leaves one.
StartPrepare(p) ==
  /\ bpc[p] \in {"idle", "done"} /\ ppc[p] = "idle" /\ p \in matrix /\ ~listed[p]
  /\ ~made[p] /\ made' = [made EXCEPT ![p] = TRUE]
  /\ PrepareTo(p, IF HandoffAccepted(p) THEN "split" ELSE "idle")
  /\ UNCHANGED <<matrix, publish, build_vars, out, inventory, release_vars, deaths>>

\* External: somebody removes the directory, to try again.
RemoveOutput(p) ==
  /\ ppc[p] = "idle" /\ made[p] /\ ~listed[p]
  /\ made' = [made EXCEPT ![p] = FALSE] /\ out' = [out EXCEPT ![p] = {}]
  /\ UNCHANGED <<matrix, publish, build_vars, ppc, inventory, release_vars, deaths>>

Parts(p) == {a \in out[p] : a.kind = "part"}
Written(p) == IF Parts(p) = {} THEN 0
              ELSE CHOOSE n \in 1 .. Blocks : /\ \E a \in Parts(p) : a.last = n
                                              /\ \A a \in Parts(p) : a.last <= n
Smaller(a, b) == IF a < b THEN a ELSE b

SplitPart(p) ==
  /\ ppc[p] = "split" /\ Written(p) < Blocks
  /\ Put(p, {Asset("part", Cardinality(Parts(p)), handoff[p]["archive"], Written(p) + 1,
                   Smaller(Written(p) + PartBlocks, Blocks))})
  /\ UNCHANGED <<matrix, publish, build_vars, ppc, made, inventory, release_vars, deaths>>

SplitEnds(p) ==
  /\ ppc[p] = "split" /\ Written(p) = Blocks
  /\ PrepareTo(p, "copy")
  /\ UNCHANGED <<matrix, publish, build_vars, made, out, inventory, release_vars, deaths>>

CopyFiles(p) ==
  /\ ppc[p] = "copy"
  /\ Put(p, {Asset(f, 0, handoff[p][f], 0, 0) : f \in Files \ {"archive"}})
  /\ PrepareTo(p, "catalog")
  /\ UNCHANGED <<matrix, publish, build_vars, made, inventory, release_vars, deaths>>

\* The catalog lists name, size and digest of the parts and of the copies.
WriteCatalog(p) ==
  /\ ppc[p] = "catalog"
  /\ inventory' = [inventory EXCEPT ![p][handoff[p]["archive"]] = out[p]]
  /\ Put(p, {Asset("catalog", 0, handoff[p]["archive"], 0, 0)})
  /\ PrepareTo(p, "sign")
  /\ UNCHANGED <<matrix, publish, build_vars, made, release_vars, deaths>>

SignCatalog(p) ==
  /\ ppc[p] = "sign"
  /\ Put(p, {Asset("catalog_signature", 0, handoff[p]["archive"], 0, 0)})
  /\ PrepareTo(p, "consume")
  /\ UNCHANGED <<matrix, publish, build_vars, made, inventory, release_vars, deaths>>

\* --consume-archive
ConsumeArchive(p) ==
  /\ ppc[p] = "consume"
  /\ \/ Write(p, "archive", None)
     \/ UNCHANGED handoff
  /\ PrepareTo(p, "ready")
  /\ UNCHANGED <<matrix, publish, bpc, build, made, out, inventory, release_vars, deaths>>

\* A process dies between two writes.  Files are replaced in one step, but for the
\* parts, whose directory is not used again.
Die(p) ==
  /\ deaths < MaxDeaths /\ deaths' = deaths + 1
  /\ bpc[p] \notin {"idle", "done"} \/ ppc[p] # "idle"
  /\ bpc' = [bpc EXCEPT ![p] = "idle"] /\ ppc' = [ppc EXCEPT ![p] = "idle"]
  /\ UNCHANGED <<matrix, publish, build, handoff, made, out, inventory, release_vars>>

-----------------------------------------------------------------------------
(* The draft (external: gh release upload refuses a name that exists) and    *)
(* assemble-index.                                                           *)

Upload(p) ==
  /\ publish /\ ppc[p] = "ready" /\ ~listed[p]
  /\ \E a \in out[p] :
       /\ Name(a) \notin {Name(d) : d \in draft[p]}
       /\ draft' = [draft EXCEPT ![p] = @ \cup {a}]
  /\ UNCHANGED <<matrix, publish, build_vars, prepare_vars, listed, index, bound, deaths>>

UploadEnds(p) ==
  /\ publish /\ ppc[p] = "ready" /\ ~listed[p] /\ out[p] \subseteq draft[p]
  /\ listed' = [listed EXCEPT ![p] = TRUE]
  /\ UNCHANGED <<matrix, publish, build_vars, prepare_vars, draft, index, bound, deaths>>

Catalogs(p) == {a \in draft[p] : a.kind = "catalog"}

\* Expected(p) is what the catalog of p and its signature promise, and what
\* validate_uploaded_assets compares the draft with.
CatalogOf(p) == CHOOSE a \in draft[p] : a.kind = "catalog"
Expected(p) ==
  LET b == CatalogOf(p).build
  IN  {Asset("catalog", 0, b, 0, 0), Asset("catalog_signature", 0, b, 0, 0)} \cup inventory[p][b]

\* Mutant: the draft may hold less than the catalogs list.
AssetsMatch_Subset(p) == draft[p] \subseteq Expected(p)
AssetsMatch(p) == draft[p] = Expected(p)

\* assemble_index verifies each catalog's signature, that there is one for every
\* profile, and the inventory, before it writes anything.  The job needs the
\* profile jobs of the workflow; a re-run of it may find any draft.
CheckIndex ==
  /\ publish /\ index = "none"
  /\ IF \A p \in Profiles : Catalogs(p) # {} /\ AssetsMatch(p)
     THEN index' = "checked" /\ bound' = [p \in Profiles |-> CatalogOf(p).build]
     ELSE index' = "refused" /\ UNCHANGED bound
  /\ UNCHANGED <<matrix, publish, build_vars, prepare_vars, draft, listed, deaths>>

WriteIndex ==
  /\ index = "checked" /\ index' = "written"
  /\ UNCHANGED <<matrix, publish, build_vars, prepare_vars, draft, listed, bound, deaths>>

SignIndex ==
  /\ index = "written" /\ index' \in {"signed", "refused"}
  /\ UNCHANGED <<matrix, publish, build_vars, prepare_vars, draft, listed, bound, deaths>>

\* External: upload of the index, and the draft becomes public.
Publish ==
  /\ index = "signed" /\ index' = "published"
  /\ UNCHANGED <<matrix, publish, build_vars, prepare_vars, draft, listed, bound, deaths>>

Next ==
  \/ ValidateRef
  \/ \E p \in Profiles :
       \/ StartBuild(p) \/ WriteArchive(p) \/ ValidateArchive(p) \/ WriteManifest(p)
       \/ WriteChecksum(p) \/ SignArchive(p)
       \/ StartPrepare(p) \/ RemoveOutput(p) \/ SplitPart(p) \/ SplitEnds(p) \/ CopyFiles(p)
       \/ WriteCatalog(p) \/ SignCatalog(p) \/ ConsumeArchive(p) \/ Die(p)
       \/ Upload(p) \/ UploadEnds(p)
  \/ CheckIndex \/ WriteIndex \/ SignIndex \/ Publish

Spec == Init /\ [][Next]_vars

-----------------------------------------------------------------------------
(* Properties *)

\* The blocks of the parts in a set of assets, in the order of their numbers.
Rebuilds(assets, b) ==
  LET parts == {a \in assets : a.kind = "part"}
  IN  /\ \A a \in parts : a.build = b
      /\ {a.n : a \in parts} = 0 .. Cardinality(parts) - 1
      /\ \A n \in 1 .. Blocks : Cardinality({a \in parts : n \in a.first .. a.last}) = 1
      /\ \A a, c \in parts : a.n < c.n => a.last < c.first

\* A published release can be installed for every profile: its parts put together
\* in order are, byte for byte, the archive that its signature signs, and manifest,
\* checksum and catalog are of that same build, although processes died at any step
\* and directories held files of several builds.
PublishedIsWhole ==
  index = "published" =>
    \A p \in Profiles :
      /\ Rebuilds(draft[p], bound[p])
      /\ \A a \in draft[p] : a.build = bound[p]
      /\ {a.kind : a \in draft[p]} = Kinds

\* prepare-profile never binds files of two builds: what it signs into a catalog is
\* one build, although the manifest itself names no archive digest to compare.
CatalogIsOneBuild ==
  \A p \in Profiles : ppc[p] \in {"consume", "ready"} =>
    \A a, c \in out[p] : a.build = c.build /\ a.build # Bad

\* The archive is about to be removed only when the release output holds it whole,
\* with a signed catalog.
ConsumedIsKept ==
  \A p \in Profiles : ppc[p] = "consume" /\ handoff[p]["archive"] # None =>
    /\ Rebuilds(out[p], handoff[p]["archive"])
    /\ {a.kind : a \in out[p]} = Kinds

\* Nothing is signed, published or deleted but against one whole build, wherever
\* processes died in between (prepare-profile, validate_uploaded_assets).
ReleaseIsOneBuild ==
  /\ TypeOK
  /\ PublishedIsWhole
  /\ CatalogIsOneBuild
  /\ ConsumedIsKept
=============================================================================
