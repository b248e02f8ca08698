----------------------------- MODULE ViewerPrefs ----------------------------
(***************************************************************************)
(* What the viewer remembers in localStorage: the folded sections, whether  *)
(* the sidebar is collapsed, its width, and the theme, for several tabs of  *)
(* one origin.  Each tab reads the storage once, as it loads, and writes    *)
(* what it changes; the theme alone is read again, when that of the system  *)
(* changes.  Values that are absent or malformed read as the default.       *)
(***************************************************************************)
CONSTANTS
  Tab,
  Section,        \* the foldable sections
  Width,          \* the widths of the sidebar after clampWidth
  Absent          \* no width and no theme stored

Theme == {"light", "dark"}
View == [folds : SUBSET Section, collapsed : BOOLEAN,
         width : Width \cup {Absent}, theme : Theme \cup {Absent}]

VARIABLES
  works,          \* whether localStorage can be used
  stored,         \* the keys under STORAGE_PREFIX
  os,             \* prefers-color-scheme
  shown,          \* tab -> what its page shows; its folds are the map setupFolds holds
  dragging,       \* tab -> the resize handle is held
  wanted,         \* history: tab -> what its user chose, in this tab or as it found it
  foreign         \* history: tab -> another tab has written since this one was loaded

prefVars == <<works, stored, os, shown, dragging, wanted, foreign>>

Default == [folds |-> {}, collapsed |-> FALSE, width |-> Absent, theme |-> Absent]

\* What loading reads, from a storage that may not work.
LoadFolds == IF works THEN stored.folds ELSE {}
LoadCollapsed == IF works THEN stored.collapsed ELSE FALSE
LoadWidth == IF works THEN stored.width ELSE Absent
StoredTheme == IF works THEN stored.theme ELSE Absent

\* resolveTheme: the stored choice, otherwise that of the system.
Resolve(theme) == IF theme = Absent THEN os ELSE theme

Loaded == [folds |-> LoadFolds, collapsed |-> LoadCollapsed,
           width |-> LoadWidth, theme |-> StoredTheme]

Resolved(view) == [view EXCEPT !.theme = Resolve(@)]

PrefsInit ==
  /\ works \in BOOLEAN /\ stored = Default
  /\ os \in Theme
  /\ shown = [t \in Tab |-> Resolved(Default)]
  /\ dragging = [t \in Tab |-> FALSE]
  /\ wanted = [t \in Tab |-> Default]
  /\ foreign = [t \in Tab |-> FALSE]

\* A write of tab t: every other tab is now behind the storage.
Write(t, store) ==
  /\ stored' = IF works THEN store ELSE stored
  /\ foreign' = [u \in Tab |-> foreign[u] \/ u # t]

Flip(set, x) == IF x \in set THEN set \ {x} ELSE set \cup {x}

\* saveFolds of the clicked section alone.
ToggleFoldSavingOne(t, s) ==
  LET folds == Flip(shown[t].folds, s)
  IN  /\ shown' = [shown EXCEPT ![t].folds = folds]
      /\ wanted' = [wanted EXCEPT ![t].folds = folds]
      /\ Write(t, [stored EXCEPT !.folds = folds \cap {s}])
      /\ UNCHANGED <<works, os, dragging>>

\* The whole map of this tab is saved.
ToggleFold(t, s) ==
  LET folds == Flip(shown[t].folds, s)
  IN  /\ shown' = [shown EXCEPT ![t].folds = folds]
      /\ wanted' = [wanted EXCEPT ![t].folds = folds]
      /\ Write(t, [stored EXCEPT !.folds = folds])
      /\ UNCHANGED <<works, os, dragging>>

ToggleSidebar(t) ==
  LET collapsed == ~shown[t].collapsed
  IN  /\ shown' = [shown EXCEPT ![t].collapsed = collapsed]
      /\ wanted' = [wanted EXCEPT ![t].collapsed = collapsed]
      /\ Write(t, [stored EXCEPT !.collapsed = collapsed])
      /\ UNCHANGED <<works, os, dragging>>

\* The width follows the pointer, and is saved when the handle is let go.
DragMove(t, w) ==
  /\ dragging' = [dragging EXCEPT ![t] = TRUE]
  /\ shown' = [shown EXCEPT ![t].width = w]
  /\ UNCHANGED <<works, stored, os, wanted, foreign>>

DragUp(t, w) ==
  /\ dragging[t]
  /\ dragging' = [dragging EXCEPT ![t] = FALSE]
  /\ shown' = [shown EXCEPT ![t].width = w]
  /\ wanted' = [wanted EXCEPT ![t].width = w]
  /\ Write(t, [stored EXCEPT !.width = w])
  /\ UNCHANGED <<works, os>>

Opposite(theme) == IF theme = "dark" THEN "light" ELSE "dark"

ToggleTheme(t) ==
  LET theme == Opposite(shown[t].theme)
  IN  /\ shown' = [shown EXCEPT ![t].theme = theme]
      /\ wanted' = [wanted EXCEPT ![t].theme = theme]
      /\ Write(t, [stored EXCEPT !.theme = theme])
      /\ UNCHANGED <<works, os, dragging>>

\* Every tab follows, "while no explicit choice is stored".
OsChange ==
  /\ os' = Opposite(os)
  /\ shown' = IF StoredTheme = Absent
              THEN [t \in Tab |-> [shown[t] EXCEPT !.theme = os']] ELSE shown
  /\ UNCHANGED <<works, stored, dragging, wanted, foreign>>

\* The page is loaded from what is stored by then.
LoadView(t) ==
  /\ shown' = [shown EXCEPT ![t] = Resolved(Loaded)']
  /\ dragging' = [dragging EXCEPT ![t] = FALSE]

Reload(t) ==
  /\ UNCHANGED <<works, stored, os>>
  /\ LoadView(t)
  /\ wanted' = IF foreign[t] THEN [wanted EXCEPT ![t] = Loaded] ELSE wanted
  /\ foreign' = [foreign EXCEPT ![t] = FALSE]

\* clearPreferences, and the reload that follows at once.
ResetView(t) ==
  /\ stored' = IF works THEN Default ELSE stored
  /\ UNCHANGED <<works, os>>
  /\ LoadView(t)
  /\ wanted' = [wanted EXCEPT ![t] = Default]
  /\ foreign' = [u \in Tab |-> u # t]

PrefsNext ==
  \/ OsChange
  \/ \E t \in Tab :
       \/ ToggleSidebar(t) \/ ToggleTheme(t) \/ Reload(t) \/ ResetView(t)
       \/ \E s \in Section : ToggleFold(t, s)
       \/ \E w \in Width : DragMove(t, w) \/ DragUp(t, w)

PrefsSpec == PrefsInit /\ [][PrefsNext]_prefVars

TypeOK ==
  /\ works \in BOOLEAN /\ stored \in View /\ os \in Theme
  /\ shown \in [Tab -> View] /\ wanted \in [Tab -> View]
  /\ dragging \in [Tab -> BOOLEAN] /\ foreign \in [Tab -> BOOLEAN]

\* A tab that wrote last has its user's choices in the storage, and shows them.
Synced(t) ==
  /\ stored = wanted[t]
  /\ shown[t].folds = stored.folds /\ shown[t].collapsed = stored.collapsed
  /\ shown[t].theme = Resolve(stored.theme)
  /\ ~dragging[t] => shown[t].width = stored.width

IInv == TypeOK /\ (works => \A t \in Tab : ~foreign[t] => Synced(t))

(***************************************************************************)
(* "Restoring and persisting the per-section state in localStorage so folds *)
(* survive reloads", and so with the sidebar, its width and the theme: as   *)
(* long as no other tab has written since the page was loaded, the page     *)
(* shows what its user last chose, and after Reset view the defaults, also  *)
(* after any number of reloads; a theme nobody chose is that of the system. *)
(***************************************************************************)
ViewKept ==
  works => \A t \in Tab : ~foreign[t] /\ ~dragging[t] => shown[t] = Resolved(wanted[t])
=============================================================================
