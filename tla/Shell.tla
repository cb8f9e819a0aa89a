------------------------------- MODULE Shell -------------------------------
(***************************************************************************)
(* The surfaces that open over a page of the console, and where keyboard   *)
(* focus goes as they open, close and are left behind: the stack kept by   *)
(* components/ui/useOverlay.ts, the one confirm dialog of the app, menus,  *)
(* the shell's shortcuts (hooks/useHotkeys.ts) and its move of focus when  *)
(* the page changes (components/Layout.tsx).                               *)
(*                                                                         *)
(* A surface's focus is one place, named after it.  A toast lies over      *)
(* every surface and may be pressed at any time.                           *)
(***************************************************************************)
EXTENDS Naturals, Sequences, SequencesExt

CONSTANTS
  MaxAsks,  \* bound on the questions asked
  MaxOpen   \* bound on the surfaces open at once

Surfaces == {"nav", "palette", "shortcuts", "drawer", "confirm"}

OfPage == {"row", "field"}

Places == Surfaces \cup OfPage \cup {"body", "main", "topbar", "menu item", "toast"}

Pages == {"list", "profile"}

VARIABLES
  page,       \* the path shown
  ui,         \* what is open, what has focus, and who holds the page's scroll
  menu,       \* where the button of the open menu is
  mobile, mobileOpen,
  pending,    \* the question that waits in the confirm dialog, 0 if none
  tone,       \* whether it is a dangerous one
  answers,    \* what each question was answered
  keys,       \* the last key pressed, while it may begin a sequence
  singleKeys  \* the setting "Single-key shortcuts"

vars == <<page, ui, menu, mobile, mobileOpen, pending, tone, answers, keys, singleKeys>>

-----------------------------------------------------------------------------
(* useOverlay.                                                             *)

Open(u) == {u.stack[i].name : i \in DOMAIN u.stack}

Top == Last(ui.stack).name

\* What leaves the document takes its focus with it, and cannot be given it back.
Gone(u, left) ==
  [u EXCEPT !.focus = IF @ \in left THEN "body" ELSE @,
            !.stack = [i \in DOMAIN @ |-> IF @[i].back \in left THEN [@[i] EXCEPT !.back = "gone"] ELSE @[i]]]

lockScroll(u) ==
  [u EXCEPT !.locks = @ + 1, !.overflow = IF u.locks = 0 THEN "hidden" ELSE @]

\* Mutation: closing any surface lets the page scroll again.
unlockScrollAlways(u) == [u EXCEPT !.locks = @ - 1, !.overflow = "scroll"]

unlockScroll(u) ==
  [u EXCEPT !.locks = @ - 1, !.overflow = IF u.locks = 1 THEN "scroll" ELSE @]

\* Opening: the surface goes on top and takes focus.
Pushed(u, s) ==
  [lockScroll(u) EXCEPT !.stack = Append(@, [name |-> s, back |-> u.focus]), !.focus = s]

\* Mutation: focus goes back whoever has it.
CleanedAlwaysBack(u, s) ==
  LET back == SelectSeq(u.stack, LAMBDA e : e.name = s)[1].back IN
  [unlockScroll(u) EXCEPT !.stack = SelectSeq(@, LAMBDA e : e.name # s), !.focus = IF back # "gone" THEN back ELSE @]

\* Closing: focus goes back unless the place is gone or something else has focus by now.
Cleaned(u, s) ==
  LET back == SelectSeq(u.stack, LAMBDA e : e.name = s)[1].back IN
  [unlockScroll(u) EXCEPT !.stack = SelectSeq(@, LAMBDA e : e.name # s),
                          !.focus = IF @ \in {"body", s} /\ back # "gone" THEN back ELSE @]

Popped(u, s) == IF s \in Open(u) THEN Cleaned(Gone(u, {s}), s) ELSE u

\* A menu in what is left goes with it; it is drawn outside the page and outside the drawer.
MenuIn(left) == IF menu \in left THEN {"menu item"} ELSE {}

-----------------------------------------------------------------------------
TypeOK ==
  /\ page \in Pages
  /\ \A i \in DOMAIN ui.stack : ui.stack[i] \in [name : Surfaces, back : Places \cup {"gone"}]
  /\ ui.focus \in Places /\ ui.focus \in Surfaces => ui.focus \in Open(ui)
  /\ ui.locks = Len(ui.stack) /\ IsInjective([i \in DOMAIN ui.stack |-> ui.stack[i].name])
  /\ ui.overflow \in {"scroll", "hidden"}
  /\ menu \in {"none", "topbar", "row", "drawer"} /\ (ui.focus = "menu item" => menu # "none")
  /\ mobile \in BOOLEAN /\ mobileOpen \in BOOLEAN /\ ("nav" \in Open(ui) <=> mobile /\ mobileOpen)
  /\ pending \in 0 .. MaxAsks /\ ("confirm" \in Open(ui) <=> pending # 0)
  /\ tone \in {"default", "danger"}
  /\ answers \in Seq({"waiting", "yes", "no"}) /\ Len(answers) <= MaxAsks
  /\ keys \in {"none", "g"} /\ singleKeys \in BOOLEAN

Modal == ui.stack # <<>>

isTypingTarget == ui.focus \in {"field", "palette"}

\* What a pointer can reach: the page when nothing is over it, otherwise the top surface.
Reaches(s) == IF Modal THEN Top = s ELSE s \in OfPage \cup {"topbar"}

Room == Len(ui.stack) < MaxOpen

NoKeys == keys' = "none"

CloseMenu == menu' = "none"

\* A surface opens from a button, which has focus.
OpenFrom(place, s) == ui' = Pushed([Gone(ui, {"menu item"}) EXCEPT !.focus = place], s) /\ CloseMenu

OpenDrawer ==
  /\ Reaches("row") /\ Room
  /\ OpenFrom("row", "drawer")
  /\ UNCHANGED <<page, mobile, mobileOpen, pending, tone, answers, keys, singleKeys>>

OpenPalette ==
  /\ Reaches("topbar") /\ Room
  /\ OpenFrom("topbar", "palette")
  /\ UNCHANGED <<page, mobile, mobileOpen, pending, tone, answers, keys, singleKeys>>

OpenNav ==
  /\ Reaches("topbar") /\ mobile /\ Room
  /\ mobileOpen' = TRUE
  /\ OpenFrom("topbar", "nav")
  /\ UNCHANGED <<page, mobile, pending, tone, answers, keys, singleKeys>>

\* The window crosses the width below which the navigation is a drawer.
Resize ==
  /\ mobileOpen /\ ~mobile => Room
  /\ mobile' = ~mobile
  /\ ui' = CASE ~mobileOpen -> ui [] mobileOpen /\ mobile -> Popped(ui, "nav") [] OTHER -> Pushed(ui, "nav")
  /\ UNCHANGED <<page, menu, mobileOpen, pending, tone, answers, keys, singleKeys>>

\* Mutation: a question asked over another leaves the other waiting.
AnsweredFirstNot == answers

\* A second ask while one is open answers the first "no".
AnsweredFirst == IF pending = 0 THEN answers ELSE [answers EXCEPT ![pending] = "no"]

\* Asked by the code behind a button, by what a button began a while ago, or by a guard
\* when the user goes back.  A dialog that changes its tone takes focus anew.
AskFrom(u, t) ==
  /\ Len(answers) < MaxAsks /\ (pending = 0 => Len(u.stack) < MaxOpen)
  /\ answers' = Append(AnsweredFirst, "waiting")
  /\ pending' = Len(answers')
  /\ tone' = t
  /\ ui' = CASE pending = 0  -> Pushed(u, "confirm")
             [] pending # 0 /\ t # tone -> Pushed(Cleaned(u, "confirm"), "confirm")
             [] OTHER -> u

Ask ==
  /\ \E t \in {"default", "danger"} : AskFrom(ui, t)
  /\ UNCHANGED <<page, menu, mobile, mobileOpen, keys, singleKeys>>

Settle(u, answer) ==
  /\ answers' = [answers EXCEPT ![pending] = answer]
  /\ pending' = 0
  /\ ui' = Popped(u, "confirm")

Confirm ==
  /\ Modal /\ Top = "confirm"
  /\ Settle(ui, "yes")
  /\ UNCHANGED <<page, menu, mobile, mobileOpen, tone, keys, singleKeys>>

\* The onClose of the top surface: its backdrop, its button or Escape.  The menu of a drawer
\* closes with it, and any other menu when something outside it is pressed.
CloseTop ==
  /\ Modal
  /\ \E pressed \in BOOLEAN :
       LET left == IF pressed THEN {"menu item"} ELSE MenuIn({Top})
           u == Gone(ui, left)
       IN /\ ui.focus = "menu item" => pressed
          /\ menu' = IF left = {} THEN menu ELSE "none"
          /\ keys' = keys
          /\ IF Top = "confirm" THEN Settle(u, "no")
             ELSE ui' = Popped(u, Top) /\ UNCHANGED <<pending, answers>>
  /\ mobileOpen' = IF Top = "nav" THEN FALSE ELSE mobileOpen
  /\ UNCHANGED <<page, mobile, tone, singleKeys>>

-----------------------------------------------------------------------------
(* Menus.                                                                  *)

Trigger == menu

OpenMenu ==
  /\ menu = "none"
  /\ \E place \in {"topbar", "row", "drawer"} : Reaches(place) /\ menu' = place
  /\ ui' = [ui EXCEPT !.focus = "menu item"]
  /\ UNCHANGED <<page, mobile, mobileOpen, pending, tone, answers, keys, singleKeys>>

\* Escape in a menu closes the menu, and only the menu.
EscapeMenu ==
  /\ ui.focus = "menu item"
  /\ CloseMenu /\ ui' = Gone([ui EXCEPT !.focus = Trigger], {"menu item"})
  /\ UNCHANGED <<page, mobile, mobileOpen, pending, tone, answers, keys, singleKeys>>

\* The menu closes first; what was chosen may ask, or show the shortcuts.
SelectItem ==
  /\ ui.focus = "menu item"
  /\ CloseMenu
  /\ LET u == Gone([ui EXCEPT !.focus = Trigger], {"menu item"}) IN
     \/ menu # "topbar" /\ \E t \in {"default", "danger"} : AskFrom(u, t)
     \/ /\ menu = "topbar" /\ "shortcuts" \notin Open(ui) /\ Room
        /\ ui' = Pushed(u, "shortcuts")
        /\ UNCHANGED <<pending, tone, answers>>
  /\ UNCHANGED <<page, mobile, mobileOpen, keys, singleKeys>>

-----------------------------------------------------------------------------
(* Pages.                                                                  *)

\* Mutation: focus that fell to the body is left there.
LandsOnMainOnly(u) == [u EXCEPT !.focus = IF @ = "main" THEN "main" ELSE @]

Lands(u) == [u EXCEPT !.focus = IF @ \in {"body", "main"} THEN "main" ELSE @]

\* The page is mounted anew: its drawer and what of it had focus are gone.
MoveFrom(u, p) ==
  /\ page' = p
  /\ IF p = page THEN ui' = u /\ UNCHANGED menu
     ELSE /\ menu' = IF menu \in {"row", "drawer"} THEN "none" ELSE menu
          /\ ui' = Lands(Popped(Gone(u, OfPage \cup {"drawer"} \cup MenuIn({"row", "drawer"})), "drawer"))

GoBack ==
  /\ \E p \in Pages \ {page} : MoveFrom(ui, p)
  /\ UNCHANGED <<mobile, mobileOpen, pending, tone, answers, keys, singleKeys>>

\* A link of the navigation, of the palette or of the account menu closes what it is in.
Follow ==
  /\ \E p \in Pages :
       \/ Modal /\ Top \in {"nav", "palette"} /\ MoveFrom(Popped(ui, Top), p)
       \/ ui.focus = "menu item" /\ menu = "topbar" /\ page' = p /\ CloseMenu
          /\ ui' = IF p = page THEN Gone(ui, {"menu item"})
                   ELSE Lands(Popped(Gone(ui, OfPage \cup {"drawer", "menu item"}), "drawer"))
  /\ mobileOpen' = IF Modal /\ Top = "nav" /\ ui.focus # "menu item" THEN FALSE ELSE mobileOpen
  /\ UNCHANGED <<mobile, pending, tone, answers, keys, singleKeys>>

\* The palette's entry for the shortcuts closes the palette first.
PaletteToShortcuts ==
  /\ Modal /\ Top = "palette" /\ "shortcuts" \notin Open(ui)
  /\ ui' = Pushed(Popped(ui, "palette"), "shortcuts")
  /\ UNCHANGED <<page, menu, mobile, mobileOpen, pending, tone, answers, keys, singleKeys>>

-----------------------------------------------------------------------------
(* Keys and the pointer.                                                   *)

\* A key counts towards a sequence wherever it is typed.
PressG ==
  /\ keys' = "g"
  /\ UNCHANGED <<page, ui, menu, mobile, mobileOpen, pending, tone, answers, singleKeys>>

Fires == ~isTypingTarget /\ ~Modal /\ singleKeys

\* "g p" goes to the profile.
PressP ==
  /\ NoKeys
  /\ IF Fires /\ keys = "g" THEN MoveFrom(ui, "profile") ELSE UNCHANGED <<page, ui, menu>>
  /\ UNCHANGED <<mobile, mobileOpen, pending, tone, answers, singleKeys>>

PressQuestionMark ==
  /\ NoKeys /\ Room
  /\ ui' = IF Fires THEN Pushed(ui, "shortcuts") ELSE ui
  /\ UNCHANGED <<page, menu, mobile, mobileOpen, pending, tone, answers, singleKeys>>

\* The one shortcut that works everywhere.
PressModK ==
  /\ "palette" \notin Open(ui) => Room
  /\ NoKeys
  /\ ui' = IF "palette" \in Open(ui) THEN Popped(ui, "palette") ELSE Pushed(ui, "palette")
  /\ UNCHANGED <<page, menu, mobile, mobileOpen, pending, tone, answers, singleKeys>>

\* A second without a key, or a key of no shortcut.
Pause ==
  /\ keys # "none" /\ NoKeys
  /\ UNCHANGED <<page, ui, menu, mobile, mobileOpen, pending, tone, answers, singleKeys>>

\* Inside a surface Tab goes round; from outside it goes in.  In a menu it closes the menu.
Tab ==
  /\ LET u == IF ui.focus = "menu item" THEN [ui EXCEPT !.focus = Trigger] ELSE ui
     IN /\ menu' = IF ui.focus = "menu item" THEN "none" ELSE menu
        /\ \E place \in (IF Modal THEN {Top} ELSE OfPage \cup {"topbar", "toast"}) :
             ui' = [Gone(u, IF ui.focus = "menu item" THEN {"menu item"} ELSE {}) EXCEPT !.focus = place]
  /\ NoKeys
  /\ UNCHANGED <<page, mobile, mobileOpen, pending, tone, answers, singleKeys>>

\* A press outside a menu closes it.
Press ==
  /\ \E place \in OfPage \cup Surfaces \cup {"topbar", "toast"} :
       /\ Reaches(place) \/ place = "toast"
       /\ ui' = [Gone(ui, {"menu item"}) EXCEPT !.focus = place]
  /\ CloseMenu
  /\ UNCHANGED <<page, mobile, mobileOpen, pending, tone, answers, keys, singleKeys>>

ToastLeaves ==
  /\ ui.focus = "toast" \/ \E i \in DOMAIN ui.stack : ui.stack[i].back = "toast"
  /\ ui' = Gone(ui, {"toast"})
  /\ UNCHANGED <<page, menu, mobile, mobileOpen, pending, tone, answers, keys, singleKeys>>

Init ==
  /\ page = "list" /\ menu = "none"
  /\ ui = [stack |-> <<>>, focus |-> "body", locks |-> 0, overflow |-> "scroll"]
  /\ mobile \in BOOLEAN /\ mobileOpen = FALSE
  /\ pending = 0 /\ tone = "default" /\ answers = <<>>
  /\ keys = "none" /\ singleKeys \in BOOLEAN

Next ==
  \/ OpenDrawer \/ OpenPalette \/ OpenNav \/ Resize
  \/ Ask \/ Confirm \/ CloseTop
  \/ OpenMenu \/ EscapeMenu \/ SelectItem
  \/ GoBack \/ Follow \/ PaletteToShortcuts
  \/ PressG \/ PressP \/ PressQuestionMark \/ PressModK \/ Pause \/ Tab \/ Press \/ ToastLeaves

Spec == Init /\ [][Next]_vars

-----------------------------------------------------------------------------
(* Properties; what no step may do is written as an action.                *)

\* The page behind is held exactly while a surface is open (components/ui/useOverlay.ts:27),
\* whatever the order in which surfaces open and close.
HeldWhileOpen == ui.overflow = "hidden" <=> Modal

\* The surface on top keeps focus (components/ui/useOverlay.ts:122, components/Layout.tsx:350):
\* neither a lower surface that closes nor a page that changes underneath takes it away.
FocusIsNotTaken ==
  Modal /\ Modal' /\ Top' = Top /\ ui.focus = Top => ui'.focus \in {Top, "toast", "menu item"}

\* A promise is never left hanging (components/ui/ConfirmDialog.tsx:99): a question without an
\* answer is the one on the screen.
NoQuestionForgotten == \A q \in DOMAIN answers : answers[q] = "waiting" => q = pending

\* A new page does not leave focus nowhere (components/Layout.tsx:340) when nothing is over it.
PageIsLandedOn == page' # page /\ ui'.stack = <<>> => ui'.focus # "body"
=============================================================================
