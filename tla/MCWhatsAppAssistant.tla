------------------------ MODULE MCWhatsAppAssistant ------------------------
(* Small instances of WhatsAppAssistant for TLC.                           *)
EXTENDS WhatsAppAssistant, TLC

\* Workers are interchangeable, and so are messages.
Symmetric == Permutations(Workers) \cup Permutations(Messages)
=============================================================================
