--------------------------- MODULE BridgeInstaller --------------------------
(* The dcs-bridge CLI as it installs and removes the bridges, one file        *)
(* operation a step (tslua-dcs-bridge/scripts/dcs-bridge.mjs), against a DCS  *)
(* that starts and stops, loads what it finds, keeps a running mission file   *)
(* open and is updated.  The Saved Games profile the CLI works on is chosen   *)
(* by scripts/dcs-profile.mjs; the install folder is shared by all profiles.  *)
(*                                                                            *)
(* A write may fail: before it changed anything, or halfway (a full disk, a   *)
(* stopped process), leaving the beginning of its contents.                   *)
(*                                                                            *)
(* Files copied from dist/ are absent, partial or whole; a token file is the  *)
(* number it reads as.  MissionScripting.lua is a sequence of pieces, or not  *)
(* there; its line ending is preserved by the code and left out.  An operator *)
(* headed MISTAKE is used by no action.                                       *)
EXTENDS Naturals, Sequences, FiniteSets, FiniteSetsExt, SequencesExt

CONSTANTS
  Absent,      \* no file
  NoBridge,    \* no bridge, or no game
  Profiles,    \* the Saved Games profiles
  GameTexts,   \* the texts of MissionScripting.lua, one per version of DCS
  MaxFaults,   \* bound: writes that fail
  MaxTokens    \* bound: tokens ever generated

GamePieces == UNION {ToSet(text) : text \in ToSet(GameTexts)}
Pieces == GamePieces \cup {"nl", "BEGIN", "dofile", "END"}

(* A file that is not there is no token, no copy and no text; DCS's own texts *)
(* of MissionScripting.lua hold none of the marks the CLI writes.             *)
ASSUME FilesAssumption ==
  /\ Absent \notin Nat \cup {"partial", "whole"} /\ Absent \notin Seq(Pieces)
  /\ GameTexts \in Seq(Seq(GamePieces)) /\ GameTexts # <<>>
  /\ {"BEGIN", "END"} \cap GamePieces = {}

VARIABLES
  disk,        \* per profile: token, hook, script, mission
  scripting,   \* <install>/Scripts/MissionScripting.lua, a text or Absent
  backup,      \* MissionScripting.lua.tslua-dcs.bak
  newest,      \* the profile whose dcs.log was written last
  dcs,         \* the running game: profile, bridge tokens, mission
  pc,          \* the next step of the CLI command, "idle" between commands
  profile,     \* the profile the running command works on
  source,      \* what install has read from MissionScripting.lua
  version,     \* the version of DCS installed, an index of GameTexts
  revoked,     \* TRUE once uninstall has removed the running game's token
  made, faults \* tokens generated, writes failed

vars == <<disk, scripting, backup, newest, dcs, pc, profile, source, version,
          revoked, made, faults>>
game == <<newest, dcs, version, revoked>>

Empty == 0          \* a token file without a token in it
Refusing == Empty   \* a bridge that could not read a token: it refuses all

(* What the token file reads as once the n-th token is written to it, and     *)
(* after a write that was cut: nothing, the beginning of the token, which is  *)
(* as good a token, or all of it without its line end.                        *)
Token(n) == 2 * n
TokenCuts(n) == {Empty, 2 * n - 1, Token(n)}

Off == [profile |-> NoBridge, gui |-> NoBridge, missionBridge |-> NoBridge, mission |-> FALSE]

(* ---------------------------------------------------- the loader block --- *)

Anchor == "anchor"
Loader == <<"BEGIN", "dofile", "END">>

HasAnchor(text) == Anchor \in ToSet(text)
WholeBlock(text, b, e) ==
  /\ text[b] = "BEGIN" /\ text[e] = "END" /\ b < e
  /\ \A i \in b..(e - 1) : text[i] # "END"
  /\ \A i \in 1..(b - 1) : text[i] = "BEGIN" => \A j \in i..Len(text) : text[j] # "END"

(* The first match of stripLoader's pattern: from the first begin mark to the *)
(* next end mark, with up to two line ends in front of it.                    *)
Blocks(text) == {m \in (DOMAIN text) \X (DOMAIN text) : WholeBlock(text, m[1], m[2])}
LineEndsBefore(text, b) ==
  Max({n \in 0..2 : n < b /\ \A i \in (b - n)..(b - 1) : text[i] = "nl"})

(* MISTAKE: the line ends install wrote stay behind. *)
WithoutBlockOnly(text, m) == SubSeq(text, 1, m[1] - 1) \o SubSeq(text, m[2] + 1, Len(text))

WithoutBlock(text, m) ==
  SubSeq(text, 1, m[1] - 1 - LineEndsBefore(text, m[1])) \o SubSeq(text, m[2] + 1, Len(text))

stripLoader(text) ==
  LET after[n \in 0..Len(text)] ==
        IF n = 0 THEN text
        ELSE LET t == after[n - 1]
             IN IF Blocks(t) = {} THEN t ELSE WithoutBlock(t, CHOOSE m \in Blocks(t) : TRUE)
  IN after[Len(text)]

Patched(clean) ==
  LET a == Min({i \in DOMAIN clean : clean[i] = Anchor})
  IN SubSeq(clean, 1, a) \o <<"nl", "nl">> \o Loader \o SubSeq(clean, a + 1, Len(clean))

(* ------------------------------------------------------ file operations -- *)

(* One operation, after which the command goes on at `next`; a failing one    *)
(* raises an error that ends the command.                                     *)
Fault == faults < MaxFaults /\ faults' = faults + 1 /\ pc' = "idle"

File(f, contents) == disk' = [disk EXCEPT ![profile][f] = contents]
WriteFile(f, contents, cuts, next) ==
  \/ File(f, contents) /\ pc' = next /\ UNCHANGED faults
  \/ \E cut \in cuts : File(f, cut) /\ Fault
  \/ UNCHANGED disk /\ Fault
Skip(next) == pc' = next /\ UNCHANGED <<disk, faults>>

(* MISTAKE: every install makes a token. *)
TokenNeverKept == FALSE

TokenKept == disk[profile].token # Absent

(* existsSync before the write: a token file, even an empty or a cut one, is  *)
(* kept.                                                                      *)
InstallToken ==
  /\ pc = "token"
  /\ IF TokenKept
     THEN Skip("hook") /\ UNCHANGED made
     ELSE /\ made < MaxTokens /\ made' = made + 1
          /\ WriteFile("token", Token(made + 1), TokenCuts(made + 1), "hook")
  /\ UNCHANGED <<game, scripting, backup, profile, source>>

CopyBridges ==
  /\ \/ pc = "hook" /\ WriteFile("hook", "whole", {"partial"}, "script")
     \/ pc = "script" /\ WriteFile("script", "whole", {"partial"}, "mission")
  /\ UNCHANGED <<game, scripting, backup, profile, source, made>>

(* A mission the game has open cannot be replaced (EBUSY): it is kept. *)
MissionOpen == dcs.mission /\ dcs.profile = profile
CopyMission ==
  /\ pc = "mission"
  /\ IF MissionOpen THEN Skip("read") ELSE WriteFile("mission", "whole", {"partial"}, "read")
  /\ UNCHANGED <<game, scripting, backup, profile, source, made>>

(* readFileSync raises when the file is not there. *)
ReadScripting ==
  /\ pc = "read"
  /\ \/ scripting # Absent /\ source' = scripting /\ pc' = "backup"
     \/ scripting = Absent /\ UNCHANGED source /\ pc' = "idle"
  /\ UNCHANGED <<game, disk, scripting, backup, profile, made, faults>>

(* The beginnings a text is cut to when its write fails. *)
Beginnings(text) == {SubSeq(text, 1, n) : n \in 0..(Len(text) - 1)}

(* MISTAKE: the backup is left for another time. *)
NoBackup ==
  /\ pc = "backup" /\ pc' = "patch"
  /\ UNCHANGED <<game, disk, scripting, backup, profile, source, made, faults>>

WriteBackup ==
  /\ pc = "backup"
  /\ \/ backup # Absent /\ pc' = "patch" /\ UNCHANGED <<backup, faults>>
     \/ backup = Absent /\ backup' = source /\ pc' = "patch" /\ UNCHANGED faults
     \/ backup = Absent /\ backup' \in Beginnings(source) \union {Absent} /\ Fault
  /\ UNCHANGED <<game, disk, scripting, profile, source, made>>

(* MISTAKE: the text is patched as it was read. *)
CleanAsRead == source

Clean == stripLoader(source)

(* The anchor is looked for after the backup is written. *)
Patch ==
  /\ pc = "patch"
  /\ \/ ~HasAnchor(Clean) /\ pc' = "idle" /\ UNCHANGED <<scripting, faults>>
     \/ HasAnchor(Clean) /\ scripting' = Patched(Clean) /\ pc' = "idle" /\ UNCHANGED faults
     \/ HasAnchor(Clean) /\ scripting' \in Beginnings(Patched(Clean)) \union {scripting} /\ Fault
  /\ source' = <<>>
  /\ UNCHANGED <<game, disk, backup, profile, made>>

(* ------------------------------------------------------------ uninstall -- *)

(* rmSync with force: a file that is not there is removed.  The folder of a   *)
(* mission the game has open cannot be: the command ends there.               *)
RemoveFiles ==
  /\ \/ pc = "rm_hook" /\ File("hook", Absent) /\ pc' = "rm_script"
     \/ pc = "rm_script" /\ File("script", Absent) /\ pc' = "rm_mission"
     \/ pc = "rm_mission" /\ ~MissionOpen /\ File("mission", Absent) /\ pc' = "rm_token"
     \/ pc = "rm_mission" /\ MissionOpen /\ UNCHANGED disk /\ pc' = "idle"
  /\ UNCHANGED <<game, scripting, backup, profile, source, made, faults>>

RemoveToken ==
  /\ pc = "rm_token" /\ pc' = "strip"
  /\ File("token", Absent)
  /\ revoked' = (revoked \/ profile = dcs.profile)
  /\ UNCHANGED <<newest, dcs, version, scripting, backup, profile, source, made, faults>>

Strip ==
  /\ pc = "strip"
  /\ \/ scripting = Absent /\ pc' = "idle" /\ UNCHANGED <<scripting, faults>>
     \/ /\ scripting # Absent
        /\ scripting' = stripLoader(scripting) /\ pc' = "idle" /\ UNCHANGED faults
     \/ /\ scripting # Absent /\ stripLoader(scripting) # scripting
        /\ scripting' \in Beginnings(stripLoader(scripting)) \union {scripting} /\ Fault
  /\ UNCHANGED <<game, disk, backup, profile, source, made>>

(* The command resolves its paths once, from the newest dcs.log.  It ends     *)
(* there when it finds no profile or no install, or no bundle in dist/.       *)
Command(first) ==
  /\ pc = "idle" /\ pc' \in {first, "idle"}
  /\ profile' = newest /\ source' = <<>>
  /\ UNCHANGED <<game, disk, scripting, backup, made, faults>>

Install == Command("token")
Uninstall == Command("rm_hook")

(* ---------------------------------------------------------------- DCS ---- *)

(* What readInstalledToken returns to a bridge that is loaded now. *)
TokenRead(p) == IF disk[p].token = Absent THEN Refusing ELSE disk[p].token

StartGame(p) ==
  /\ dcs = Off
  /\ newest' = p
  /\ dcs' = [Off EXCEPT !.profile = p,
              !.gui = IF disk[p].hook = "whole" THEN TokenRead(p) ELSE NoBridge]
  /\ revoked' = FALSE
  /\ UNCHANGED <<disk, scripting, backup, pc, profile, source, version, made, faults>>

StartMission ==
  /\ dcs # Off /\ ~dcs.mission /\ scripting # Absent
  /\ dcs' = [dcs EXCEPT !.mission = disk[dcs.profile].mission = "whole",
              !.missionBridge = IF Blocks(scripting) # {} /\ disk[dcs.profile].script = "whole"
                                THEN TokenRead(dcs.profile) ELSE NoBridge]
  /\ UNCHANGED <<newest, version, revoked, disk, scripting, backup, pc, profile, source, made, faults>>

StopGame ==
  /\ dcs # Off /\ dcs' = Off
  /\ UNCHANGED <<newest, version, revoked, disk, scripting, backup, pc, profile, source, made, faults>>

(* An update of DCS writes its own MissionScripting.lua, or leaves none. *)
UpdateGame ==
  /\ dcs = Off /\ version < Len(GameTexts)
  /\ version' = version + 1
  /\ scripting' \in {GameTexts[version + 1], Absent}
  /\ UNCHANGED <<newest, dcs, revoked, disk, backup, pc, profile, source, made, faults>>

Init ==
  /\ disk = [p \in Profiles |->
       [token |-> Absent, hook |-> Absent, script |-> Absent, mission |-> Absent]]
  /\ version = 1 /\ scripting = GameTexts[1] /\ backup = Absent
  /\ newest \in Profiles /\ profile = newest /\ source = <<>>
  /\ dcs = Off /\ pc = "idle" /\ revoked = FALSE
  /\ made = 0 /\ faults = 0

Next ==
  \/ Install \/ InstallToken \/ CopyBridges \/ CopyMission
  \/ ReadScripting \/ WriteBackup \/ Patch
  \/ Uninstall \/ RemoveFiles \/ RemoveToken \/ Strip
  \/ \E p \in Profiles : StartGame(p)
  \/ StartMission \/ StopGame \/ UpdateGame

Spec == Init /\ [][Next]_vars

(* -------------------------------------------------------- properties ----- *)

(* "Kept across reinstalls so a running DCS (which read it at load) keeps     *)
(* accepting requests" (dcs-bridge.mjs:121): a bridge of the running game and *)
(* the token file of its profile disagree only once uninstall has removed     *)
(* the token, or when the game was started before there was one.              *)
RunningGameKeepsAccepting ==
  \A b \in {dcs.gui, dcs.missionBridge} :
    b \notin {NoBridge, Refusing} => disk[dcs.profile].token = b \/ revoked

LoaderBehindAnchor(text) ==
  \E a \in DOMAIN text : \E b \in (a + 1)..(Len(text) - 2) :
    /\ text[a] = Anchor /\ \A i \in 1..(a - 1) : text[i] # Anchor
    /\ \A i \in (a + 1)..(b - 1) : text[i] = "nl"
    /\ text[b] = "BEGIN" /\ text[b + 1] = "dofile" /\ text[b + 2] = "END"

(* An install that completes leaves one whole loader, right behind the first  *)
(* anchor, before whatever DCS's text has there (the sanitizing lines), in a  *)
(* text otherwise as it was read, with none of its files missing: also when   *)
(* it installs over an earlier install, whole or cut short.                   *)
InstallLoads ==
  [][pc = "patch" /\ pc' = "idle" /\ UNCHANGED faults /\ HasAnchor(stripLoader(source))
       => /\ LoaderBehindAnchor(scripting')
          /\ Quantify(DOMAIN scripting', LAMBDA i : scripting'[i] = "END") = 1
          /\ stripLoader(scripting') = stripLoader(source)
          /\ disk[profile].hook = "whole" /\ disk[profile].script = "whole"
          /\ {disk[profile].mission, disk[profile].token} \cap {Absent} = {}]_vars

(* An uninstall that completes leaves none of the installed files, and turns  *)
(* a patched MissionScripting.lua back into the game's own text.              *)
UninstallRestores ==
  [][pc = "strip" /\ pc' = "idle" /\ UNCHANGED faults
       => /\ Range(disk[profile]) = {Absent}
          /\ \A v \in DOMAIN GameTexts :
               HasAnchor(GameTexts[v]) /\ scripting = Patched(GameTexts[v])
                 => scripting' = GameTexts[v]]_vars

(* One failed write never loses the MissionScripting.lua of the first version *)
(* of DCS: the file, once stripped, or the backup still is that text.         *)
OneFailureKeepsTheText ==
  faults <= 1 /\ version = 1 => GameTexts[1] \in {stripLoader(scripting), backup}

=============================================================================
