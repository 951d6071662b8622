--------------------------- MODULE MCSessionList ---------------------------
(* What a tab's list makes of the rows, each in its own behaviours: which    *)
(* cards it has (SessionBoard, three sessions and pages of one row), the     *)
(* names its user gives (SessionTitle, two tabs and one session), and the    *)
(* branch and title its daemon derives (SessionMeta, one tab, one session).  *)
EXTENDS SessionBoard, SessionTitle, SessionMeta, TLC

VARIABLE about   \* the one the behaviour is about

\* Where a behaviour is not about a component, one initial state of it is enough.
InitOfAny ==
  /\ Init /\ TitleInit /\ MetaInit /\ about \in {"cards", "names", "metas"}
  /\ about # "cards" => \A s \in Session : rows[s].is = "none"
  /\ about # "names" => title = Default
  /\ about # "metas" => head = Unknown

NextOfAny ==
  /\ UNCHANGED about
  /\ \/ about = "cards" /\ Next /\ UNCHANGED <<titleVars, metaVars>>
     \/ about = "names" /\ TitleNext /\ UNCHANGED <<vars, metaVars>>
     \/ about = "metas" /\ MetaNext /\ UNCHANGED <<vars, titleVars>>

SpecOfAny == InitOfAny /\ [][NextOfAny]_<<vars, titleVars, metaVars, about>>

Symmetry == Permutations(Tab) \cup Permutations(Title)
=============================================================================
