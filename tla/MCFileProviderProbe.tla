------------------------- MODULE MCFileProviderProbe -------------------------
\* Three objects: a directory a provider owns, a directory of nobody's, and a
\* file a provider owns.
EXTENDS FileProviderProbe

CONSTANTS cloudDir, plainDir, cloudFile

MCObjects == {cloudDir, plainDir, cloudFile}
MCDirectories == {cloudDir, plainDir}
MCOwned == {cloudDir, cloudFile}
MCSyncRoots == {cloudDir}
=============================================================================
