---------------------------- MODULE MCDownloadPool ----------------------------
EXTENDS DownloadPool

=============================================================================
