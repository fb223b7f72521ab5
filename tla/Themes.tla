------------------------------- MODULE Themes -------------------------------
(***************************************************************************)
(* Themes of customers: ThemeService over the look_and_feels table.        *)
(*                                                                         *)
(* One theme of a customer is its default, which a request unsets and sets *)
(* row by row.  A theme may name a parent, which it is given when it is    *)
(* created and keeps.  The handlers of serverless.yml call the service;    *)
(* the Express controller calls the repository, and makes none of the      *)
(* service's checks.  Left out are the colours and the rest of the look,   *)
(* which an update merges under the version it has read, and compileTheme, *)
(* which reads the parents of a theme and stores nothing; with it, whether *)
(* a theme inherits from its parent, which nothing else reads.             *)
(***************************************************************************)
EXTENDS Requests, Integers, FiniteSets, FiniteSetsExt

CONSTANTS
  MaxThemes,    \* bound: themes created
  Brand         \* customers

VARIABLES
  theme,
  asked,        \* history: the theme each customer asked for as its default last, as far as it is known
  alone         \* history: nothing overlapped the request begun last, or those before it

themes == <<theme, asked, alone>>

Theme == 1 .. MaxThemes     \* ids, in the order of creation
NoTheme == 0
Unknown == -1

ThemeRow == [state : {"unborn", "there", "gone"}, customer : Brand, isDefault : BOOLEAN,
             parent : Theme \cup {NoTheme}, version : Nat]

UnbornTheme == [state |-> "unborn", customer |-> CHOOSE c \in Brand : TRUE, isDefault |-> FALSE,
                parent |-> NoTheme, version |-> 0]

InUse(t) == t \in Theme /\ theme[t].state = "there"
NewThemes == {t \in Theme : theme[t].state = "unborn"}
Defaults(c) == {t \in Theme : InUse(t) /\ theme[t].customer = c /\ theme[t].isDefault}

ThemesTypeOK ==
  /\ RequestsTypeOK
  /\ theme \in [Theme -> ThemeRow]
  /\ asked \in [Brand -> Theme \cup {NoTheme, Unknown}]
  /\ alone \in BOOLEAN

ThemesInit ==
  /\ RequestsInit
  /\ theme = [t \in Theme |-> UnbornTheme]
  /\ asked = [c \in Brand |-> NoTheme]
  /\ alone = TRUE

-----------------------------------------------------------------------------
\* What becomes of the histories

\* Overlapping requests, and those that fail, may leave any theme the default.
Muddled == [c \in Brand |-> Unknown]

Opens(r, next) ==
  /\ Begin(r, next)
  /\ alone' = \A q \in Request : At(q, "idle")
  /\ asked' = IF alone' THEN asked ELSE Muddled
  /\ UNCHANGED theme

\* A request that has asked for a default ends.
Settles(r) ==
  LET c == call[r] IN
  /\ Done(r)
  /\ asked' = IF alone THEN [asked EXCEPT ![c.customer] = c.theme] ELSE asked

-----------------------------------------------------------------------------
\* Requests to the service

\* The service looks for the parent of a theme that is to inherit; one that is not may
\* name any, and the controller never looks.
CreateTheme(r, c, p, default) ==
  /\ NewThemes # {}
  /\ p \notin NewThemes
  /\ Opens(r, [pc |-> "insertTheme", customer |-> c, parent |-> p, makeDefault |-> default])

\* default: "keep", or what isDefault is to be.
UpdateTheme(r, t, default) ==
  /\ InUse(t)
  /\ Opens(r, [pc |-> "readTheme", theme |-> t, makeDefault |-> default])

DeleteTheme(r, t) ==
  /\ InUse(t)
  /\ Opens(r, [pc |-> "heirs", theme |-> t])

SetDefault(r, t) ==
  /\ InUse(t)
  /\ Opens(r, [pc |-> "others", theme |-> t, customer |-> theme[t].customer, set |-> TRUE])

\* The controller has the repository delete: its first read of the theme.
DeleteThemeDirectly(r, t) ==
  /\ InUse(t)
  /\ ~theme[t].isDefault
  /\ Opens(r, [pc |-> "dropTheme", theme |-> t])

-----------------------------------------------------------------------------
\* Statements

InsertTheme(r) ==
  LET c == call[r]
      t == Min(NewThemes)
  IN
  /\ At(r, "insertTheme")
  /\ NewThemes # {}
  /\ theme' = [theme EXCEPT ![t] = [state |-> "there", customer |-> c.customer, isDefault |-> c.makeDefault,
                 parent |-> c.parent, version |-> 1]]
  /\ IF c.makeDefault
       THEN Goes(r, [pc |-> "others", theme |-> t, customer |-> c.customer, set |-> FALSE])
       ELSE Done(r)
  /\ UNCHANGED <<asked, alone>>

ReadTheme(r) ==
  LET c == call[r] IN
  /\ At(r, "readTheme")
  /\ IF InUse(c.theme)
       THEN Goes(r, [pc |-> "writeTheme", theme |-> c.theme, makeDefault |-> c.makeDefault,
                     version |-> theme[c.theme].version])
       ELSE Done(r)
  /\ UNCHANGED themes

Chosen(asks, now) == CASE asks = "keep" -> now [] asks = "yes" -> TRUE [] asks = "no" -> FALSE

\* The parent is not part of an update.
Updated(c) ==
  [theme[c.theme] EXCEPT !.isDefault = Chosen(c.makeDefault, @), !.version = c.version + 1]

WriteTheme(r) ==
  LET c == call[r]
      t == c.theme
      owner == theme[t].customer
      write == InUse(t) /\ theme[t].version = c.version
  IN
  /\ At(r, "writeTheme")
  /\ theme' = IF write THEN [theme EXCEPT ![t] = Updated(c)] ELSE theme
  /\ asked' = IF write /\ c.makeDefault = "no" /\ asked[owner] = t
                THEN [asked EXCEPT ![owner] = NoTheme]
                ELSE asked
  /\ IF write /\ c.makeDefault = "yes"
       THEN Goes(r, [pc |-> "others", theme |-> t, customer |-> owner, set |-> FALSE])
       ELSE Done(r)
  /\ UNCHANGED alone

\* The service looks for themes that have this one for parent.
LookForHeirs(r) ==
  LET c == call[r] IN
  /\ At(r, "heirs")
  /\ IF \E t \in Theme : InUse(t) /\ theme[t].parent = c.theme THEN Done(r)
     ELSE Goes(r, [c EXCEPT !.pc = "isDefault"])
  /\ UNCHANGED themes

\* Mutation of RefuseDefault: the repository does not look at isDefault.
RefuseDefaultNot(r) ==
  LET c == call[r] IN
  /\ At(r, "isDefault")
  /\ Goes(r, [c EXCEPT !.pc = "dropTheme"])
  /\ UNCHANGED themes

\* The default theme is not deleted; one that has gone is deleted again.
RefuseDefault(r) ==
  LET c == call[r] IN
  /\ At(r, "isDefault")
  /\ IF InUse(c.theme) /\ theme[c.theme].isDefault THEN Done(r) ELSE Goes(r, [c EXCEPT !.pc = "dropTheme"])
  /\ UNCHANGED themes

DropTheme(r) ==
  /\ At(r, "dropTheme")
  /\ theme' = [theme EXCEPT ![call[r].theme] = [UnbornTheme EXCEPT !.state = "gone"]]
  /\ Done(r)
  /\ UNCHANGED <<asked, alone>>

\* The end of unsetOtherDefaults.
Afterwards(r, c) ==
  IF c.set
    THEN Goes(r, [pc |-> "set", theme |-> c.theme, customer |-> c.customer]) /\ UNCHANGED asked
    ELSE Settles(r)

\* unsetOtherDefaults reads the themes of the customer.
ListOthers(r) ==
  LET c == call[r]
      others == Defaults(c.customer) \ {c.theme}
  IN
  /\ At(r, "others")
  /\ IF others = {} THEN Afterwards(r, c)
     ELSE /\ Goes(r, [pc |-> "unset", theme |-> c.theme, customer |-> c.customer,
                       set |-> c.set, others |-> others])
          /\ UNCHANGED asked
  /\ UNCHANGED <<theme, alone>>

UnsetOther(r, t) ==
  LET c == call[r] IN
  /\ At(r, "unset")
  /\ t \in c.others
  /\ theme' = IF InUse(t) THEN [theme EXCEPT ![t].isDefault = FALSE] ELSE theme
  /\ IF c.others = {t} THEN Afterwards(r, c)
     ELSE Goes(r, [c EXCEPT !.others = @ \ {t}]) /\ UNCHANGED asked
  /\ UNCHANGED alone

SetChosen(r) ==
  LET c == call[r] IN
  /\ At(r, "set")
  /\ theme' = IF InUse(c.theme) THEN [theme EXCEPT ![c.theme].isDefault = TRUE] ELSE theme
  /\ IF InUse(c.theme) THEN Settles(r) ELSE Done(r) /\ UNCHANGED asked
  /\ UNCHANGED alone

ThemesNext ==
  \E r \in Request :
    \/ \E c \in Brand, p \in Theme \cup {NoTheme}, default \in BOOLEAN : CreateTheme(r, c, p, default)
    \/ \E t \in Theme :
         \/ \E default \in {"keep", "yes", "no"} : UpdateTheme(r, t, default)
         \/ DeleteTheme(r, t) \/ DeleteThemeDirectly(r, t) \/ SetDefault(r, t) \/ UnsetOther(r, t)
    \/ InsertTheme(r) \/ ReadTheme(r) \/ WriteTheme(r) \/ LookForHeirs(r) \/ RefuseDefault(r)
    \/ DropTheme(r) \/ ListOthers(r) \/ SetChosen(r)
    \/ Fails(r) /\ asked' = Muddled /\ UNCHANGED <<theme, alone>>

ThemesSpec == ThemesInit /\ [][ThemesNext]_<<themes, requests>>

-----------------------------------------------------------------------------
\* Correctness

\* Whenever nothing is in flight, the default of a customer is the theme that it asked
\* for last, and the only one, although its rows are written one by one.  Requests that
\* overlap or fail may leave a customer several defaults, or none: the next one that
\* asks for a default, and is alone, puts that right.
DefaultIsLastAsked ==
  (\A r \in Request : At(r, "idle")) =>
    \A c \in Brand : asked[c] # Unknown => Defaults(c) = {asked[c]} \ {NoTheme}

-----------------------------------------------------------------------------
\* What comments of the code say and the code does not do

\* "If this is set as default, unset other defaults" (LookAndFeelRepository.ts:132).
OneDefault == (\A r \in Request : At(r, "idle")) => \A c \in Brand : Cardinality(Defaults(c)) <= 1

\* "Check if there are child themes inheriting from this one" (ThemeService.ts:116):
\* the controller does not, and a new theme may name a parent that has gone.
ParentStays ==
  Settled => \A t \in Theme :
    InUse(t) /\ theme[t].parent # NoTheme => InUse(theme[t].parent)
=============================================================================
