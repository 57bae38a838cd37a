----------------------------- MODULE MCGuiRelay -----------------------------
EXTENDS GuiRelay

MCNames == {"gnb1", "ue1"}
=============================================================================
