----------------------------- MODULE MCMission -----------------------------
EXTENDS MissionWorld

MCNames == {"Uzi", "Enfield"}
MCDeeds == {"nothing", "raise", "spawn", "cancelFirst", "delayFirst", "schedule"}
=============================================================================
