------------------------------ MODULE MCReminders ------------------------------
EXTENDS Reminders
=============================================================================
