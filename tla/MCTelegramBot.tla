----------------------------- MODULE MCTelegramBot -----------------------------
(* The instances of TelegramBot. *)
EXTENDS TelegramBot

\* Trimmed texts of up to five runes.
McTexts ==
    {<<>>} \cup {t \in UNION {[1..n -> Runes] : n \in 1..5} :
                    t[1] = "w" /\ t[Len(t)] = "w"}
=============================================================================
