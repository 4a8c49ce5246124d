-------------------------- MODULE UpdateController --------------------------
(***************************************************************************)
(* The update check: UpdateController (app/updatecontroller.cpp).  A release is   *)
(* a record of its tag (a sequence of numbers, <<>> when the answer has none)      *)
(* and its page ("" when it has none, "plain" for an address that is no HTTPS).     *)
(***************************************************************************)
EXTENDS Integers, Sequences

CONSTANTS
  UpdateEnabled,   \* PRODUCT_UPDATE_ENABLED
  Portable,        \* whether the copy runs in portable mode
  CurrentVersion,
  Releases         \* the answers of the release server

ASSUME VersionAssumption ==
  CurrentVersion \in Seq(Nat) /\ \A r \in Releases : r.tag \in Seq(Nat)

VARIABLE update
updateVars == <<update>>

ReleasesPage == "page"

UpdateInit ==
  \E auto \in BOOLEAN :
    update = [status |-> "Idle", asked |-> FALSE, latest |-> <<>>, url |-> "",
              failed |-> FALSE, auto |-> auto, quit |-> FALSE]

(* compareVersions(): numbers from left to right, a missing one counts as zero.  *)
Part(v, i) == IF i \in DOMAIN v THEN v[i] ELSE 0
(* Mutant: the last number that differs decides.                               *)
CompareVersions_LastPart(a, b) ==
  LET differ == {i \in DOMAIN a \cup DOMAIN b : Part(a, i) # Part(b, i)}
      last   == CHOOSE i \in differ : \A j \in differ : j <= i
  IN IF differ = {} THEN 0 ELSE IF Part(a, last) < Part(b, last) THEN -1 ELSE 1
CompareVersions(a, b) ==
  LET differ == {i \in DOMAIN a \cup DOMAIN b : Part(a, i) # Part(b, i)}
      first  == CHOOSE i \in differ : \A j \in differ : i <= j
  IN IF differ = {} THEN 0 ELSE IF Part(a, first) < Part(b, first) THEN -1 ELSE 1

(* resolveUpdateAction(): asked anew each time, the tool may come and go.        *)
UpdateAction(tool) ==
  IF update.status # "UpdateAvailable" THEN "None"
  ELSE IF Portable \/ ~tool THEN "OpenDownloadPage"
  ELSE "InstallUpdate"

SetCheckAutomatically == update' = [update EXCEPT !.auto = ~@]

(* checkNow(): a check that is under way is left running.                     *)
CheckNow ==
  update' = IF ~UpdateEnabled THEN [update EXCEPT !.status = "NotConfigured"]
            ELSE IF update.asked THEN update
            ELSE [update EXCEPT !.status = "Checking", !.asked = TRUE, !.failed = FALSE]

ApplyReleasePayload(u, release) ==
  IF release.tag = <<>> THEN [u EXCEPT !.status = "Error"]
  ELSE IF CompareVersions(release.tag, CurrentVersion) > 0
    THEN [u EXCEPT !.status = "UpdateAvailable", !.latest = release.tag,
                   !.url = IF release.page = "" THEN ReleasesPage ELSE release.page]
  ELSE [u EXCEPT !.status = "UpToDate", !.latest = release.tag]

(* Mutant: an error is only logged.                                         *)
ReplyFails_Silent(u) == u
ReplyFails(u) == [u EXCEPT !.status = "Error"]

(* handleReply(): an answer, an error, or the transfer's timeout.               *)
HandleReply ==
  /\ update.asked
  /\ \/ update' = ReplyFails([update EXCEPT !.asked = FALSE])
     \/ \E r \in Releases : update' = ApplyReleasePayload([update EXCEPT !.asked = FALSE], r)

InstallUpdate ==
  \E tool, started \in BOOLEAN :
    update' = IF UpdateAction(tool) = "InstallUpdate" /\ started
                THEN [update EXCEPT !.failed = FALSE, !.quit = TRUE]
                ELSE [update EXCEPT !.failed = TRUE]

OpenDownloadPage ==
  \E opened \in BOOLEAN :
    update' = [update EXCEPT !.failed =
                 ~(update.status = "UpdateAvailable" /\ update.url # "plain" /\ opened)]

(* Main.qml's start: the preference decides whether a check is made.             *)
Startup ==
  /\ update.status = "Idle" /\ update.auto
  /\ CheckNow

UpdateNext ==
  \/ SetCheckAutomatically \/ CheckNow \/ HandleReply \/ InstallUpdate
  \/ OpenDownloadPage \/ Startup

UpdateFairness == WF_updateVars(HandleReply)

UpdateSpec == UpdateInit /\ [][UpdateNext]_updateVars /\ UpdateFairness

-----------------------------------------------------------------------------
(* An update is offered only for a release that is newer by the ordinary order of  *)
(* version numbers, and with the page of that release, whatever earlier checks       *)
(* found and however they ended.                                             *)
OfferedIsNewer ==
  update.status = "UpdateAvailable" =>
    \E r \in Releases :
      /\ r.tag = update.latest
      /\ update.url = (IF r.page = "" THEN ReleasesPage ELSE r.page)
      /\ \E i \in DOMAIN r.tag :
           /\ r.tag[i] > Part(CurrentVersion, i)
           /\ \A j \in 1 .. (i - 1) : r.tag[j] = Part(CurrentVersion, j)

(* A check for updates ends, whatever the server answers or fails to.               *)
UpdateCheckEnds == (update.status = "Checking") ~> (update.status # "Checking")
=============================================================================
