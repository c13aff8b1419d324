\* A click on an item of the menu ("Help translate" or a locale) that lands
\* while the menu's exit transition runs reopens the menu.
CONSTANTS
    Locales <- MCLocales

SPECIFICATION Spec
PROPERTY MenuOpensOnlyOnButtonClick
