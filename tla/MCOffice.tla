------------------------------ MODULE MCOffice ------------------------------
(* The database through its releases, the desk, the diary and the recovery *)
(* of the upload volume.  They share no state: a behaviour is about one.   *)
EXTENDS Migrations, FrontDesk, Diary, RecoveryBundle, TradeWorkflows, TLC

CONSTANTS x, y, f, g, h

VARIABLE focus

\* Two containers, two requests, two actors, two projects or two operators.
MCPair       == {x, y}
MCFiles      == {f, g, h}
MCReleases   == {5, 19, 31, 40, 42}
MCPaths      == {"a", "A", "b"}
MCKeyOf      == [p \in MCPaths |-> IF p = "b" THEN "b" ELSE "a"]

officeVars == <<baseVars, deskVars, diaryVars, bundleVars, focus>>

Foci == {"database", "documents", "logo", "portal", "visits", "enquiries", "trial", "bundle"}

Elsewhere ==
  /\ focus # "database" => UNCHANGED baseVars
  /\ focus \notin {"documents", "logo", "portal"} => UNCHANGED deskVars
  /\ focus \notin {"visits", "enquiries", "trial"} => UNCHANGED diaryVars
  /\ focus # "bundle" => UNCHANGED bundleVars
  /\ UNCHANGED focus

MCInit ==
  /\ focus \in Foci
  /\ BaseInit /\ DeskInit /\ DiaryInit /\ BundleInit
  /\ focus # "bundle" => source = Missing

MCNext ==
  \/ focus = "database" /\ BaseNext /\ Elsewhere
  \/ focus = "documents" /\ DocumentsNext /\ Elsewhere
  \/ focus = "logo" /\ LogoNext /\ Elsewhere
  \/ focus = "portal" /\ PortalNext /\ Elsewhere
  \/ focus = "visits" /\ VisitsNext /\ Elsewhere
  \/ focus = "enquiries" /\ (JobNext \/ ProjectsMove) /\ Elsewhere
  \/ focus = "trial" /\ (JobNext \/ TrialMoves) /\ Elsewhere
  \/ focus = "bundle" /\ BundleNext /\ Elsewhere

MCSpec == MCInit /\ [][MCNext]_officeVars

MCDatabaseInit == focus = "database" /\ BaseInit /\ DeskInit /\ DiaryInit /\ BundleInit /\ source = Missing

MCDatabase == MCDatabaseInit /\ [][BaseNext /\ Elsewhere]_officeVars

Symmetries == Permutations(MCPair) \cup Permutations(MCFiles)

-----------------------------------------------------------------------------
(* The rows, files, notes and runs of every part are well formed.          *)
OfficeTypeOK == BaseTypeOK /\ DeskTypeOK /\ DiaryTypeOK /\ BundleTypeOK

(* Every revision finds what it alters and can be taken back, the seeded   *)
(* workflow templates are the catalogue's, and at every moment of a        *)
(* rollout the rows are whole.                                             *)
DatabaseIsSound == ChainReplays /\ CatalogueIsSound /\ RowsAreWhole

(* The desk and the diary keep what they promise, and at every moment of a *)
(* rollout the containers that serve find their schema.                    *)
PartsAreSound == DeskIsSound /\ DiaryIsSound /\ ServesWhatItKnows

(* No rollout, request or race takes back what has been granted: quotes    *)
(* survive every revision, free subscriptions stay free, no workspace is   *)
(* locked out, and a revoked link lets no message begin.                   *)
NothingIsTakenBack == QuotesSurvive /\ FreeStaysFree /\ NobodyIsLockedOut /\ RevokedMeansRevoked
=============================================================================
