-------------------------- MODULE MC_BuildInstaller --------------------------
EXTENDS BuildInstaller

MCLinux == {"deb", "rpm"}
MCAll == {"deb", "rpm", "macos"}
MCMacos == {"macos"}
\* $1: amd64 or arm64 as CI passes it, or none when run by hand; the
\* macOS script ignores it.
MCArgs == {"none", "amd64", "arm64"}
\* NOTARIZE is set with secrets on CI, may be empty, or absent locally.
MCNotarizeAll == {"unset", "empty", "set"}
MCNotarizeDefined == {"empty", "set"}
=============================================================================
