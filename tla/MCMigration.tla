---------------------------- MODULE MCMigration ----------------------------
EXTENDS Migration
=============================================================================
