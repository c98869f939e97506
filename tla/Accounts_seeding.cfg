CONSTANTS
    Users = {u1, u2}
    Names = {admin, zhang}
    Mails = {adminMail, zhangMail}
    Passwords = {p}
    Books = {b1}
    Calls = {c1}
    AdminName = admin
    AdminMail = adminMail
    AdminPassword = p
    None = None
SPECIFICATION Spec
PROPERTY StartSeedsAdmin
