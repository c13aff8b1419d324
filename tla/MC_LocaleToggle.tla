--------------------------- MODULE MC_LocaleToggle ---------------------------
EXTENDS LocaleToggle

\* Two locales: the current one and another to choose.
MCLocales == {"en-US", "zh-CN"}
=============================================================================
