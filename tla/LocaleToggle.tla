----------------------------- MODULE LocaleToggle -----------------------------
(***************************************************************************)
(* LocaleToggle (core/src/components/LocaleToggle/LocaleToggle.tsx): a     *)
(* button that opens a menu of locales.  The menu's open state is          *)
(* react-use's useToggle, and all three handlers flip it: handleClick      *)
(* (the button), handleClose (the Menu's onClose: a click on its backdrop, *)
(* or Escape) and handleSelect (a locale's item).  "Help translate" calls  *)
(* handleClose.                                                            *)
(*                                                                         *)
(* Material-UI's Menu keeps its modal layer and its items in the page     *)
(* until its exit transition ends, and an item does not check whether the  *)
(* menu is still open, so a click may reach one while the menu closes.     *)
(* The backdrop, whose click or Escape calls onClose, is rendered only     *)
(* while the menu is open.  The modal layer covers the button while the    *)
(* menu is open or closing.  Whether a click lands in that window is a     *)
(* matter of timing, so the model lets it.                                 *)
(***************************************************************************)
CONSTANTS Locales  \* the locales of the LocaleContext

VARIABLES
    open,           \* useToggle(false)
    anchorEl,       \* the useState anchor: TRUE for the button, FALSE for null
    currentLocale,  \* useLocale()
    exiting         \* the Menu's exit transition is running

vars == <<open, anchorEl, currentLocale, exiting>>

TypeOK ==
    /\ open \in BOOLEAN
    /\ anchorEl \in BOOLEAN
    /\ currentLocale \in Locales
    /\ exiting \in BOOLEAN

Init ==
    /\ open = FALSE
    /\ anchorEl = FALSE
    /\ currentLocale \in Locales
    /\ exiting = FALSE

\* toggleOpen(): flip the flag.  The Menu starts its exit transition when
\* the flag goes false and its enter transition when it goes true.
ToggleOpen ==
    /\ open' = ~open
    /\ exiting' = open

\* The Menu's layer and its items are in the page and take clicks.
MenuInPage == open \/ exiting

-----------------------------------------------------------------------------
(* Actions                                                                 *)

\* handleClick: the button is clicked (the menu's layer does not cover it).
HandleClick ==
    /\ ~MenuInPage
    /\ anchorEl' = TRUE
    /\ ToggleOpen
    /\ UNCHANGED currentLocale

\* The body of handleClose: setAnchorEl(null), then toggleOpen.
CloseMenu ==
    /\ anchorEl' = FALSE
    /\ ToggleOpen
    /\ UNCHANGED currentLocale

\* handleClose as the Menu's onClose: a click on the backdrop or Escape,
\* both of which exist only while the menu is open.
HandleClose ==
    /\ open
    /\ CloseMenu

\* handleHelpTranslate: the "Help translate" item, open or closing, calls
\* handleClose, then opens the translation guide in the browser (outside
\* the model).
HandleHelpTranslate ==
    /\ MenuInPage
    /\ CloseMenu

\* handleSelect: a locale's item is clicked; setLocale, then toggleOpen.
HandleSelect ==
    /\ MenuInPage
    /\ \E l \in Locales : currentLocale' = l
    /\ ToggleOpen
    /\ UNCHANGED anchorEl

\* The exit transition ends and the Menu hides its layer.
ExitTransitionEnded ==
    /\ exiting
    /\ ~open
    /\ exiting' = FALSE
    /\ UNCHANGED <<open, anchorEl, currentLocale>>

Next ==
    \/ HandleClick
    \/ HandleClose
    \/ HandleHelpTranslate
    \/ HandleSelect
    \/ ExitTransitionEnded

Spec == Init /\ [][Next]_vars

-----------------------------------------------------------------------------
(* Properties                                                              *)

\* The menu opens only when its button is clicked: closing it (handleClose,
\* also behind "Help translate") and choosing a locale (handleSelect) never
\* open it.
MenuOpensOnlyOnButtonClick ==
    [][~open /\ open' => HandleClick]_vars

=============================================================================
