----------------------------- MODULE MCReconnect -----------------------------
EXTENDS Reconnect

Mode(seekable, youtube, length, undivided) ==
  [seekable |-> seekable, youtube |-> youtube, length |-> length, undivided |-> undivided]

MCModes == {
  Mode(TRUE, FALSE, TRUE, TRUE), Mode(TRUE, FALSE, TRUE, FALSE),
  \* a server without ranges, or one that does not tell the length
  Mode(FALSE, FALSE, TRUE, TRUE), Mode(TRUE, FALSE, FALSE, TRUE),
  Mode(FALSE, TRUE, TRUE, TRUE), Mode(TRUE, TRUE, TRUE, TRUE) }
=============================================================================
