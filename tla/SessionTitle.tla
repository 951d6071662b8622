----------------------------- MODULE SessionTitle -----------------------------
(***************************************************************************)
(* The user's name for one session: the rename of a tab (SessionTitleEditor, *)
(* session-store.ts), its PATCH through the web server to the relay        *)
(* (relay-api.ts, session-routes.ts), the `session.title` frame that tells *)
(* every tab, and the seeding of a tab's overrides from the row            *)
(* (session-title.ts).                                                     *)
(*                                                                         *)
(* A title is sealed for the row and opened for a tab; every tab holds the *)
(* content key.  The frame is not cached: a tab that is not connected when *)
(* it is broadcast never gets it.  The session is neither archived nor     *)
(* deleted, after which a tab forgets its name.                            *)
(***************************************************************************)
EXTENDS Naturals, Sequences

CONSTANTS Tab, Title,
          Default,      \* no override: the derived title shows
          MaxRenames,   \* bound: renames and resets asked for
          MaxVisits     \* bound: times a tab drops, or loads the page's rows

ASSUME SessionTitleConstants ==
  /\ Default \notin Title
  /\ {MaxRenames, MaxVisits} \subseteq Nat

Override == Title \cup {Default}

VARIABLES
  title,     \* sealed_title of the row, or Default
  patch,     \* each tab's PATCH: its title, and how far it is
  up,        \* the tabs whose socket is connected
  inbox,     \* session.title frames on their way to each tab
  shows,     \* each tab's override, or Default: no entry in its map
  opening,   \* each tab's page load whose rows are being opened: the override it will bring,
             \* of this row or of the map as the load began, or Default
  raced,     \* history: renames ran side by side, and none has run alone since
  unheard,   \* history: the tabs that were not connected at the last broadcast
  undone,    \* history: the tabs a reset reached while a load would bring a name
  renames, visits

mapVars   == <<up, inbox, shows, opening>>
titlePast == <<raced, unheard, undone>>
titleVars == <<title, patch, mapVars, titlePast, renames, visits>>

NoPatch == [title |-> Default, at |-> "none"]

TitleInit ==
  /\ title \in Override
  /\ patch = [t \in Tab |-> NoPatch]
  /\ up = Tab /\ inbox = [t \in Tab |-> <<>>]
  /\ shows = [t \in Tab |-> Default] /\ opening = [t \in Tab |-> title]
  /\ raced = FALSE /\ unheard = {} /\ undone = {}
  /\ renames = 0 /\ visits = 0

Busy == {t \in Tab : patch[t].at # "none"}

-----------------------------------------------------------------------------
(* The renaming tab *)

\* renameSession and resetSessionTitle: the editor is busy until the answer, takes no title
\* that shows already, and offers the reset only where there is an override.
Rename(t, name) ==
  /\ t \notin Busy /\ name # shows[t]
  /\ renames < MaxRenames /\ renames' = renames + 1
  /\ patch' = [patch EXCEPT ![t] = [title |-> name, at |-> "asked"]]
  /\ raced' = (raced \/ Busy # {})
  /\ UNCHANGED <<title, mapVars, unheard, undone, visits>>

\* patchSessionTitle has its answer: only a 204 is shown.
ShowIfSaved(t, saved) ==
  shows' = IF saved THEN [shows EXCEPT ![t] = patch[t].title] ELSE shows

\* The answer arrives, or is lost on its way.
Answered(t) ==
  /\ patch[t].at = "told"
  /\ \E saved \in BOOLEAN : ShowIfSaved(t, saved)
  /\ patch' = [patch EXCEPT ![t] = NoPatch]
  /\ UNCHANGED <<title, up, inbox, opening, titlePast, renames, visits>>

\* The PATCH never reaches the row: no answer but an error.
Refused(t) ==
  /\ patch[t].at = "asked"
  /\ ShowIfSaved(t, FALSE)
  /\ patch' = [patch EXCEPT ![t] = NoPatch]
  /\ UNCHANGED <<title, up, inbox, opening, titlePast, renames, visits>>

-----------------------------------------------------------------------------
(* The relay *)

\* setSealedTitle
SaveTitle(t) ==
  /\ patch[t].at = "asked"
  /\ title' = patch[t].title
  /\ patch' = [patch EXCEPT ![t].at = "saved"]
  /\ raced' = (raced /\ Busy # {t})
  /\ UNCHANGED <<mapVars, unheard, undone, renames, visits>>

\* onSessionRenamed, to whoever is connected to the device's channel, and the answer.
Tell(t) ==
  /\ patch[t].at = "saved"
  /\ inbox' = [b \in Tab |-> IF b \in up THEN Append(inbox[b], patch[t].title)
                                      ELSE inbox[b]]
  /\ patch' = [patch EXCEPT ![t].at = "told"]
  /\ unheard' = Tab \ up
  /\ UNCHANGED <<title, up, shows, opening, raced, undone, renames, visits>>

-----------------------------------------------------------------------------
(* A tab's map *)

\* applyTitleFrame: a title sets the entry, a reset deletes it.
TakeTitle(t) ==
  /\ inbox[t] # <<>>
  /\ shows'  = [shows EXCEPT ![t] = Head(inbox[t])]
  /\ inbox'  = [inbox EXCEPT ![t] = Tail(@)]
  /\ undone' = IF shows'[t] = Default /\ opening[t] # Default
                 THEN undone \cup {t} ELSE undone \ {t}
  /\ UNCHANGED <<title, patch, up, opening, raced, unheard, renames, visits>>

\* Mutant: what was opened replaces the entry.
OverlayAnyTitle(t) == opening[t]

\* overlayMissingTitles: what the load has is added if the map has no entry now.
OverlayTitle(t) == IF shows[t] = Default THEN opening[t] ELSE shows[t]

SeedTitle(t) ==
  /\ opening[t] # Default
  /\ shows'   = [shows EXCEPT ![t] = OverlayTitle(t)]
  /\ opening' = [opening EXCEPT ![t] = Default]
  /\ UNCHANGED <<title, patch, up, inbox, titlePast, renames, visits>>

\* A page load brings the rows; seedSessionTitleOverrides has those opened that the map has
\* no entry for, on a copy of the map.  An entry of this session is in the copy, and stays
\* in it as long as any other row is being opened.  The bound is one such load at a time.
LoadTitles(t) ==
  /\ opening[t] = Default
  /\ visits < MaxVisits /\ visits' = visits + 1
  /\ \E brings \in IF shows[t] = Default THEN {title} ELSE {shows[t], Default} :
       opening' = [opening EXCEPT ![t] = brings]
  /\ unheard' = IF shows[t] = Default THEN unheard \ {t} ELSE unheard
  /\ UNCHANGED <<title, patch, up, inbox, shows, raced, undone, renames>>

\* The socket dies with what it carries.
Drop(t) ==
  /\ t \in up /\ up' = up \ {t}
  /\ visits < MaxVisits /\ visits' = visits + 1
  /\ inbox'  = [inbox EXCEPT ![t] = <<>>]
  /\ unheard' = IF inbox[t] = <<>> THEN unheard ELSE unheard \cup {t}
  /\ UNCHANGED <<title, patch, shows, opening, raced, undone, renames>>

Connect(t) ==
  /\ t \notin up /\ up' = up \cup {t}
  /\ UNCHANGED <<title, patch, inbox, shows, opening, titlePast, renames, visits>>

-----------------------------------------------------------------------------
TitleNext ==
  \E t \in Tab :
    \/ \E name \in Override : Rename(t, name)
    \/ SaveTitle(t) \/ Tell(t) \/ Answered(t) \/ Refused(t)
    \/ TakeTitle(t) \/ SeedTitle(t) \/ LoadTitles(t) \/ Drop(t) \/ Connect(t)

TitleSpec == TitleInit /\ [][TitleNext]_titleVars

-----------------------------------------------------------------------------
TitleTypeOK ==
  /\ title \in Override
  /\ patch \in [Tab -> [title : Override, at : {"none", "asked", "saved", "told"}]]
  /\ up \subseteq Tab /\ inbox \in [Tab -> Seq(Override)]
  /\ shows \in [Tab -> Override] /\ opening \in [Tab -> Override]
  /\ raced \in BOOLEAN /\ unheard \subseteq Tab /\ undone \subseteq Tab
  /\ renames \in Nat /\ visits \in Nat

\* When no rename runs and nothing is on its way to a connected tab, it shows the name the row
\* has, whichever tab gave it and whatever page loads raced with it, unless renames ran side
\* by side, it was not connected for the last broadcast (and had an entry, which no load
\* replaces), or a reset met a load that was opening this row, or any row over a copy of the
\* map with this one's old name: the load brings that name back.  About the PATCH, its
\* broadcast and the seeding, three ways for a name to reach a tab.
TabShowsTheName ==
  \A t \in up :
    Busy = {} /\ inbox[t] = <<>> /\ opening[t] = Default =>
      shows[t] = title \/ raced \/ t \in unheard \/ t \in undone
=============================================================================
