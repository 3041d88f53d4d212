----------------------------- MODULE MCMenuPanels -----------------------------
\* MenuPanels for TLC: up to three delayed scrolls, enough for a panel to be
\* opened, closed and opened again while another waits.
EXTENDS MenuPanels
=============================================================================
